---- MODULE Spec2Model ----
(***************************************************************************)
(* Desktop supervisor core of idea-validator (desktop/src-tauri).          *)
(*                                                                         *)
(* The model covers the command surface (commands.rs), the session store   *)
(* phase machine (session_store.rs) and the streaming task (stream.rs).    *)
(* A stream_run command is a sequence of steps separated by its await      *)
(* points; the task it spawns is a sequence of steps separated by its HTTP *)
(* requests and SSE chunk reads.  The backend child is the environment:    *)
(* the answer of every HTTP request is a nondeterministic choice.          *)
(* Emitting a frontend event (tauri emit) is taken to succeed.             *)
(*                                                                         *)
(* The backend supervisor (backend.rs) is modelled by the fields of the    *)
(* BackendManager, the log ring, the processes it has spawned and the      *)
(* command that holds its mutex; a start is a sequence of steps separated  *)
(* by the spawn and the health polls of each candidate port.               *)
(***************************************************************************)
EXTENDS Integers, Sequences, FiniteSets, TLC

\* ------------------------------------------------------------------ bounds

\* SSE chunks one task reads before the upstream closes the byte stream
MaxChunks == 1
\* length of the replay window handed to a task
MaxReplay == 1
\* SSE chunks one task reads in StreamSpec
MaxFrames == 3

\* the stream_run commands of a behaviour, each with its own token and task;
\* Spec issues the first of them
Runs == {1, 2}

SoloRuns == {1}

SessionIds == {"s1"}
RequestIds == {"r1", "r2"}

\* ------------------------------------------------------------------ types.rs

SessionPhase == {"idea_input", "awaiting_approval", "running", "completed", "failed"}

RunMode == {"idea", "edit_plan", "approve"}

\* a row of the sessions table, reduced to the phase columns; exists = FALSE
\* stands for "no row with this id"
NoRow == [exists |-> FALSE, phase |-> "idea_input", read_only |-> FALSE]

Row(phase, read_only) == [exists |-> TRUE, phase |-> phase, read_only |-> read_only]

\* ------------------------------------------------------------------ session_store.rs

\* mutant: edit_plan is also accepted in idea_input
is_run_mode_allowed_edit_early(phase, run_mode) ==
    \/ (phase = "idea_input" /\ run_mode \in {"idea", "edit_plan"})
    \/ (phase = "awaiting_approval" /\ run_mode = "edit_plan")
    \/ (phase = "awaiting_approval" /\ run_mode = "approve")

is_run_mode_allowed(phase, run_mode) ==
    \/ (phase = "idea_input" /\ run_mode = "idea")
    \/ (phase = "awaiting_approval" /\ run_mode = "edit_plan")
    \/ (phase = "awaiting_approval" /\ run_mode = "approve")

\* mutant: a failed run leaves the session writable
phase_after_run_failed_writable(run_mode, succeeded) ==
    IF succeeded
    THEN IF run_mode \in {"idea", "edit_plan"}
         THEN <<"awaiting_approval", FALSE>>
         ELSE <<"completed", TRUE>>
    ELSE <<"failed", FALSE>>

phase_after_run(run_mode, succeeded) ==
    IF succeeded
    THEN IF run_mode \in {"idea", "edit_plan"}
         THEN <<"awaiting_approval", FALSE>>
         ELSE <<"completed", TRUE>>
    ELSE <<"failed", TRUE>>

\* SessionStore::phase_get: Ok(row) or Err when no row matches
phase_get(store, id) ==
    IF store[id].exists
    THEN [ok |-> TRUE, phase |-> store[id].phase, read_only |-> store[id].read_only]
    ELSE [ok |-> FALSE, phase |-> "idea_input", read_only |-> FALSE]

\* SessionStore::phase_set: the UPDATE touches the row when there is one; the
\* result is <<ok, store after>>
phase_set(store, id, phase, read_only) ==
    IF store[id].exists
    THEN <<TRUE, [store EXCEPT ![id] = Row(phase, read_only)]>>
    ELSE <<FALSE, store>>

\* mutant: the read_only check is missing
validate_run_mode_any_writability(store, id, run_mode) ==
    LET state == phase_get(store, id) IN
    IF ~state.ok THEN FALSE
    ELSE is_run_mode_allowed(state.phase, run_mode)

\* SessionStore::validate_run_mode: Ok iff the row exists, is not read-only and
\* the pair is allowed; a read-only query
validate_run_mode(store, id, run_mode) ==
    LET state == phase_get(store, id) IN
    IF ~state.ok THEN FALSE
    ELSE IF state.read_only THEN FALSE
    ELSE is_run_mode_allowed(state.phase, run_mode)

\* SessionStore::create_session: INSERT OR IGNORE with the default phase
create_session(store, id) ==
    IF store[id].exists THEN store
    ELSE [store EXCEPT ![id] = Row("idea_input", FALSE)]

\* SessionStore::delete_session
delete_session(store, id) == [store EXCEPT ![id] = NoRow]

\* ------------------------------------------------------------------ stream.rs: text

\* Text is a sequence of tokens.  "\n", "\r" and " " are the whitespace
\* characters; every other token is an indivisible piece of text.
Whitespace == {"\n", "\r", " "}

\* an absent JSON field, or None: a text no upstream value equals
Absent == <<"<absent>">>

RECURSIVE TrimStart(_)
TrimStart(s) ==
    IF s # <<>> /\ Head(s) \in Whitespace THEN TrimStart(Tail(s)) ELSE s

RECURSIVE TrimEnd(_)
TrimEnd(s) ==
    IF s # <<>> /\ s[Len(s)] \in Whitespace
    THEN TrimEnd(SubSeq(s, 1, Len(s) - 1))
    ELSE s

\* str::trim
Trim(s) == TrimEnd(TrimStart(s))

\* [String].join("\n")
RECURSIVE JoinLines(_)
JoinLines(lines) ==
    IF lines = <<>> THEN <<>>
    ELSE IF Len(lines) = 1 THEN lines[1]
    ELSE lines[1] \o <<"\n">> \o JoinLines(Tail(lines))

\* String::find('\n'): index of the first newline, 0 when there is none
RECURSIVE FindNewline(_, _)
FindNewline(s, i) ==
    IF i > Len(s) THEN 0
    ELSE IF s[i] = "\n" THEN i
    ELSE FindNewline(s, i + 1)

\* ------------------------------------------------------------------ stream.rs: upstream events

\* An upstream event object, by the fields process_event reads.  A field holds
\* Absent when the key is missing or its value has another JSON type.
\*   invocationId, invocation_id, meta_invocationId, meta_invocation_id: text
\*   error: "none" | "string" | "object_message" | "object_other"
\*   role, author, source: content.role, author and source, as text tokens
\*   parts: content.parts, each [text, call, resp]; Absent text = no "text" key
\*   has_content: the "content" key is present
\*   usageMetadata: Absent or a usage value
Part(text, call, resp) == [text |-> text, call |-> call, resp |-> resp]

Event(inv, error, role, author, parts, usage) ==
    [invocationId |-> inv, invocation_id |-> Absent,
     meta_invocationId |-> Absent, meta_invocation_id |-> Absent,
     error |-> error, has_content |-> TRUE, role |-> role, author |-> author,
     source |-> Absent, parts |-> parts, usageMetadata |-> usage]

\* extract_invocation_id: the first spelling that holds a string is taken, then
\* trimmed, and dropped when empty
extract_invocation_id(event) ==
    LET raw == IF event.invocationId # Absent THEN event.invocationId
               ELSE IF event.invocation_id # Absent THEN event.invocation_id
               ELSE IF event.meta_invocationId # Absent THEN event.meta_invocationId
               ELSE event.meta_invocation_id
    IN IF raw = Absent THEN Absent
       ELSE IF Trim(raw) = <<>> THEN Absent
       ELSE Trim(raw)

\* extract_error_message: Some(message) for a string or an object with a string
\* message
extract_error_message(event) ==
    IF event.error \in {"string", "object_message"} THEN <<"upstream error">> ELSE Absent

\* extract_event_source
extract_event_source(event) ==
    LET raw == IF event.author # Absent THEN event.author ELSE event.source
    IN IF raw = Absent THEN Absent
       ELSE IF Trim(raw) = <<>> THEN Absent
       ELSE Trim(raw)

RECURSIVE ConcatText(_)
ConcatText(parts) ==
    IF parts = <<>> THEN <<>>
    ELSE (IF Head(parts).text = Absent THEN <<>> ELSE Head(parts).text)
         \o ConcatText(Tail(parts))

\* mutant: the text of any role is taken
extract_model_text_any_role(event) ==
    IF ~event.has_content THEN Absent
    ELSE IF ConcatText(event.parts) = <<>> THEN Absent
    ELSE ConcatText(event.parts)

\* extract_model_text
extract_model_text(event) ==
    IF ~event.has_content THEN Absent
    ELSE LET is_model ==
                 \/ event.role \in {<<"model">>, <<"assistant">>}
                 \/ (event.role = Absent /\ event.author \in {<<"model">>, <<"assistant">>})
             out == ConcatText(event.parts)
         IN IF ~is_model THEN Absent
            ELSE IF out = <<>> THEN Absent
            ELSE out

\* extract_tool_signals: per part, a functionCall gives "start" and a
\* functionResponse gives "done", in this order
RECURSIVE extract_tool_signals_parts(_)
extract_tool_signals_parts(parts) ==
    IF parts = <<>> THEN <<>>
    ELSE (IF Head(parts).call THEN <<"start">> ELSE <<>>)
         \o (IF Head(parts).resp THEN <<"done">> ELSE <<>>)
         \o extract_tool_signals_parts(Tail(parts))

extract_tool_signals(event) ==
    IF ~event.has_content THEN <<>> ELSE extract_tool_signals_parts(event.parts)

\* ------------------------------------------------------------------ stream.rs: frontend events

StreamOpen == [kind |-> "stream_open"]

StreamProgress(percent, stage, tools_completed, tools_total) ==
    [kind |-> "stream_progress", percent |-> percent, stage |-> stage,
     toolsCompleted |-> tools_completed, toolsTotal |-> tools_total]

StreamTool(phase, name) == [kind |-> "stream_tool", phase |-> phase, name |-> name]

StreamError(message, retryable) ==
    [kind |-> "stream_error", message |-> message, retryable |-> retryable]

StreamDone(usage) == [kind |-> "stream_done", usage |-> usage]

StreamMeta(invocation_id) == [kind |-> "stream_meta", invocationId |-> invocation_id]

StreamRaw(event) == [kind |-> "stream_event_raw", event |-> event]

StreamMessage(text, source) ==
    [kind |-> "stream_message", text |-> text, source |-> source]

RunCancelled == StreamError("Run cancelled.", FALSE)

\* ------------------------------------------------------------------ stream.rs: per-request state

\* StreamState::default(); None is -1 for the percent, <<>> for the stage and
\* Absent for the invocation id
StreamStateDefault ==
    [last_model_text |-> <<>>, saw_model_text |-> FALSE, saw_error |-> FALSE,
     tools_started |-> 0, tools_completed |-> 0,
     last_progress_percent |-> -1, last_progress_stage |-> <<>>,
     last_invocation_id |-> Absent]

\* what a run of synchronous code carries: the StreamState, the captured usage
\* and the events emitted so far by this run of code
Ctx(state, usage) == [state |-> state, usage |-> usage, out |-> <<>>]

Emit(ctx, payload) == [ctx EXCEPT !.out = Append(@, payload)]

Max(a, b) == IF a >= b THEN a ELSE b

Min(a, b) == IF a <= b THEN a ELSE b

\* (25.0 + completed / total * 55.0).round()
RunningPercent(completed, total) ==
    (2 * (25 * total + 55 * completed) + total) \div (2 * total)

progress_snapshot(state, done) ==
    IF done THEN <<100, <<"Complete">>>>
    ELSE IF state.tools_started > 0
    THEN LET total == Max(Max(state.tools_started, state.tools_completed), 1)
             completed == Min(state.tools_completed, total)
         IN IF completed < total
            THEN <<Min(RunningPercent(completed, total), 88),
                   <<"Running tools", completed, total>>>>
            ELSE IF state.saw_model_text
            THEN <<92, <<"Synthesizing report">>>>
            ELSE <<88, <<"Summarizing tool output">>>>
    ELSE IF state.saw_model_text
    THEN <<90, <<"Finalizing response">>>>
    ELSE <<12, <<"Understanding request">>>>

\* mutant: the snapshot is compared by percent only and the stage is not kept
emit_progress_if_changed_stale_stage(ctx, done) ==
    LET snap == progress_snapshot(ctx.state, done)
        changed == \/ ctx.state.last_progress_percent # snap[1]
                   \/ ctx.state.last_progress_stage # snap[2]
    IN IF ~changed THEN ctx
       ELSE Emit([ctx EXCEPT !.state.last_progress_percent = snap[1]],
                 StreamProgress(snap[1], snap[2],
                                ctx.state.tools_completed, ctx.state.tools_started))

emit_progress_if_changed(ctx, done) ==
    LET snap == progress_snapshot(ctx.state, done)
        changed == \/ ctx.state.last_progress_percent # snap[1]
                   \/ ctx.state.last_progress_stage # snap[2]
    IN IF ~changed THEN ctx
       ELSE Emit([ctx EXCEPT !.state.last_progress_percent = snap[1],
                             !.state.last_progress_stage = snap[2]],
                 StreamProgress(snap[1], snap[2],
                                ctx.state.tools_completed, ctx.state.tools_started))

\* process_event, lines 649-662
ProcessInvocation(ctx, event) ==
    LET invocation_id == extract_invocation_id(event)
    IN IF invocation_id # Absent /\ ctx.state.last_invocation_id # invocation_id
       THEN Emit([ctx EXCEPT !.state.last_invocation_id = invocation_id],
                 StreamMeta(invocation_id))
       ELSE ctx

\* process_event, lines 674-686
ProcessError(ctx, event) ==
    LET message == extract_error_message(event)
    IN IF message # Absent
       THEN Emit([ctx EXCEPT !.state.saw_error = TRUE], StreamError(message, TRUE))
       ELSE ctx

\* process_event, lines 688-710
RECURSIVE ProcessTools(_, _)
ProcessTools(ctx, signals) ==
    IF signals = <<>> THEN ctx
    ELSE LET phase == Head(signals)
             counted ==
                 IF phase = "start"
                 THEN [ctx EXCEPT !.state.tools_started = @ + 1]
                 ELSE [ctx EXCEPT !.state.tools_completed = @ + 1,
                                  !.state.tools_started =
                                      Max(@, ctx.state.tools_completed + 1)]
         IN ProcessTools(Emit(counted, StreamTool(phase, "tool")), Tail(signals))

\* process_event, lines 712-728
ProcessModelText(ctx, event) ==
    LET full_text == extract_model_text(event)
        normalized == Trim(full_text)
    IN IF full_text # Absent /\ normalized # <<>>
          /\ normalized # ctx.state.last_model_text
       THEN Emit([ctx EXCEPT !.state.saw_model_text = TRUE,
                             !.state.last_model_text = normalized],
                 StreamMessage(normalized, extract_event_source(event)))
       ELSE ctx

\* process_event, lines 730-732
ProcessUsage(ctx, event) ==
    IF event.usageMetadata # Absent
    THEN [ctx EXCEPT !.usage = event.usageMetadata]
    ELSE ctx

process_event(ctx, event) ==
    LET c1 == ProcessInvocation(ctx, event)
        c2 == Emit(c1, StreamRaw(event))
        c3 == ProcessError(c2, event)
        c4 == ProcessTools(c3, extract_tool_signals(event))
        c5 == ProcessModelText(c4, event)
        c6 == ProcessUsage(c5, event)
    IN emit_progress_if_changed(c6, FALSE)

RECURSIVE ProcessEvents(_, _)
ProcessEvents(ctx, evs) ==
    IF evs = <<>> THEN ctx
    ELSE ProcessEvents(process_event(ctx, Head(evs)), Tail(evs))

\* ------------------------------------------------------------------ stream.rs: payloads

\* A parsed JSON value, by what extract_run_events and process_event read:
\*   "array":   a list of events (items)
\*   "wrapped": an object holding a list under events, response, result or items
\*   "object":  any other object, taken as one event (event)
\*   "scalar":  a string, number, bool or null; as an event it has no field
NoFields ==
    [invocationId |-> Absent, invocation_id |-> Absent,
     meta_invocationId |-> Absent, meta_invocation_id |-> Absent,
     error |-> "none", has_content |-> FALSE, role |-> Absent, author |-> Absent,
     source |-> Absent, parts |-> <<>>, usageMetadata |-> Absent]

JsonArray(items) == [shape |-> "array", items |-> items, event |-> NoFields]

JsonWrapped(items) == [shape |-> "wrapped", items |-> items, event |-> NoFields]

JsonObject(event) == [shape |-> "object", items |-> <<>>, event |-> event]

JsonScalar == [shape |-> "scalar", items |-> <<>>, event |-> NoFields]

\* the upstream events of the model
EvHel == Event(<<"inv1">>, "none", <<"model">>, Absent,
               <<Part(<<"Hel">>, FALSE, FALSE)>>, Absent)

EvHello == Event(<<"inv1">>, "none", <<"model">>, <<"agent">>,
                 <<Part(<<"Hel">>, FALSE, FALSE), Part(<<"lo">>, FALSE, FALSE)>>,
                 <<"usage1">>)

EvError == Event(Absent, "string", Absent, Absent, <<>>, Absent)

EvTools == Event(<<"inv2">>, "none", <<"user">>, Absent,
                 <<Part(Absent, TRUE, FALSE), Part(<<"out">>, FALSE, TRUE)>>, Absent)

\* a function call of the model, without text
EvCall == Event(<<"inv2">>, "none", <<"model">>, Absent,
                <<Part(Absent, TRUE, FALSE)>>, Absent)

\* the function response, without text
EvResp == Event(<<"inv2">>, "none", <<"user">>, Absent,
                <<Part(Absent, FALSE, TRUE)>>, Absent)

\* no content.role, author "model", text " Hel "
EvAuthor == Event(Absent, "none", Absent, <<"model">>,
                  <<Part(<<" ", "Hel", " ">>, FALSE, FALSE)>>, Absent)

\* content.role "user" with author "model"
EvUser == Event(<<"inv1">>, "none", <<"user">>, <<"model">>,
                <<Part(<<"Hi">>, FALSE, FALSE)>>, Absent)

\* model text that is whitespace only
EvBlank == Event(<<"inv1">>, "none", <<"assistant">>, Absent,
                 <<Part(<<" ">>, FALSE, FALSE), Part(<<"\n">>, FALSE, FALSE)>>, Absent)

\* the JSON documents of the model, each one text token
JsonTokens == {"{hel}", "{hello}", "{error}", "{tools}", "[hel,hello]",
               "{events:[error]}", "5", "{call}", "{resp}", "{author}",
               "{user}", "{blank}", "[hel,call,hel]"}

JsonValue(token) ==
    CASE token = "{hel}" -> JsonObject(EvHel)
      [] token = "{hello}" -> JsonObject(EvHello)
      [] token = "{error}" -> JsonObject(EvError)
      [] token = "{tools}" -> JsonObject(EvTools)
      [] token = "[hel,hello]" -> JsonArray(<<EvHel, EvHello>>)
      [] token = "{events:[error]}" -> JsonWrapped(<<EvError>>)
      [] token = "{call}" -> JsonObject(EvCall)
      [] token = "{resp}" -> JsonObject(EvResp)
      [] token = "{author}" -> JsonObject(EvAuthor)
      [] token = "{user}" -> JsonObject(EvUser)
      [] token = "{blank}" -> JsonObject(EvBlank)
      [] token = "[hel,call,hel]" -> JsonArray(<<EvHel, EvCall, EvHel>>)
      [] OTHER -> JsonScalar

\* serde_json::from_str on trimmed text: one document, nothing else
ParseJson(text) ==
    IF Len(text) = 1 /\ text[1] \in JsonTokens
    THEN [ok |-> TRUE, value |-> JsonValue(text[1])]
    ELSE [ok |-> FALSE, value |-> JsonScalar]

\* extract_run_events: Some(list) for an array or a wrapping object
extract_run_events(payload) ==
    IF payload.shape \in {"array", "wrapped"}
    THEN [some |-> TRUE, events |-> payload.items]
    ELSE [some |-> FALSE, events |-> <<>>]

\* ------------------------------------------------------------------ stream.rs: SSE parsing

\* the locals of run_sse_stream's read loop; done_seen notes that a [DONE]
\* frame was consumed and late that a frame consumed after it was processed
SseLocals(ctx) ==
    [line_buffer |-> <<>>, data_lines |-> <<>>, done |-> FALSE, ctx |-> ctx,
     done_seen |-> FALSE, late |-> FALSE]

\* consume_sse_event on the locals: the frame is taken from data_lines, which
\* is cleared, and done is assigned the result
consume_sse_event(r) ==
    IF r.data_lines = <<>> THEN [r EXCEPT !.done = FALSE]
    ELSE LET trimmed == Trim(JoinLines(r.data_lines))
             cleared == [r EXCEPT !.data_lines = <<>>]
             parsed == ParseJson(trimmed)
             found == extract_run_events(parsed.value)
             evs == IF found.some THEN found.events ELSE <<parsed.value.event>>
         IN IF trimmed = <<>> THEN [cleared EXCEPT !.done = FALSE]
            ELSE IF trimmed = <<"[DONE]">>
            THEN [cleared EXCEPT !.done = TRUE, !.done_seen = TRUE]
            ELSE IF ~parsed.ok THEN [cleared EXCEPT !.done = FALSE]
            ELSE [cleared EXCEPT !.done = FALSE, !.ctx = ProcessEvents(@, evs),
                                 !.late = @ \/ (r.done_seen /\ evs # <<>>)]

\* one line of the buffer, lines 257-280: the text before the newline, less a
\* trailing "\r"; an empty line consumes the frame, a data: line is collected
TakeLine(r, newline_idx) ==
    LET raw == SubSeq(r.line_buffer, 1, newline_idx - 1)
        line == IF raw # <<>> /\ raw[Len(raw)] = "\r"
                THEN SubSeq(raw, 1, Len(raw) - 1) ELSE raw
        rest == [r EXCEPT !.line_buffer =
                     SubSeq(r.line_buffer, newline_idx + 1, Len(r.line_buffer))]
    IN IF line = <<>> THEN consume_sse_event(rest)
       ELSE IF Head(line) = "data:"
       THEN [rest EXCEPT !.data_lines = Append(@, TrimStart(Tail(line)))]
       ELSE rest

\* the inner loop, lines 256-281: every complete line of the buffer
RECURSIVE DrainLines(_)
DrainLines(r) ==
    LET newline_idx == FindNewline(r.line_buffer, 1)
    IN IF newline_idx = 0 THEN r ELSE DrainLines(TakeLine(r, newline_idx))

\* Some(Ok(chunk)), lines 253-282
ReadChunk(r, chunk) == DrainLines([r EXCEPT !.line_buffer = @ \o chunk])

\* lines 286-304: the residual buffer and frame, unless the stream is done
FlushResidual(r) ==
    IF r.done THEN r
    ELSE LET residual == Trim(r.line_buffer)
             pushed == IF residual # <<>> /\ Head(residual) = "data:"
                       THEN [r EXCEPT !.data_lines = Append(@, TrimStart(Tail(residual)))]
                       ELSE r
         IN consume_sse_event(pushed)

\* mutant: a cancelled stream ends without stream_done
EndOfStreamCancelNoDone(r, cancelled) ==
    LET flushed == FlushResidual(r).ctx
        c1 == IF cancelled THEN Emit(flushed, RunCancelled) ELSE flushed
        c2 == IF cancelled THEN c1 ELSE Emit(c1, StreamDone(c1.usage))
    IN emit_progress_if_changed(c2, TRUE)

\* lines 306-339: the events that end the stream
EndOfStream(r, cancelled) ==
    LET flushed == FlushResidual(r).ctx
        c1 == IF cancelled THEN Emit(flushed, RunCancelled) ELSE flushed
        c2 == Emit(c1, StreamDone(c1.usage))
    IN emit_progress_if_changed(c2, TRUE)

\* mutant: the outcome looks at saw_error only
SseOutcomeIgnoringCancel(ctx, cancelled) ==
    IF ctx.state.saw_error THEN "Failed" ELSE "Completed"

\* lines 341-345
SseOutcome(ctx, cancelled) ==
    IF cancelled \/ ctx.state.saw_error THEN "Failed" ELSE "Completed"

\* ------------------------------------------------------------------ state

VARIABLES
    sessions,       \* the sessions table: session id -> row
    stream_tokens,  \* AppState.stream_tokens: request id -> token (0 = no entry)
    cancelled,      \* the tokens on which cancel() has been called
    run,            \* per stream_run command: its input and its position
    task,           \* per spawned streaming task: its locals and its position
    events,         \* per task: the events it has emitted on agent-stream:<rid>
    backend,        \* AppState.backend: the fields of the BackendManager
    log_lines,      \* BackendManager.log_lines: the ring shared with the readers
    procs,          \* the processes the supervisor has spawned: pid -> process
    cmd,            \* the command that holds the supervisor mutex, and its locals
    broadcasts,     \* the events emitted to every window of the frontend
    db,             \* the local database: the sessions and messages tables
    clock,          \* what now_ms() returns
    append,         \* the message_append call between two of its statements
    store_op,       \* the last session store call: its name, input and result
    keyring,        \* the OS keychain entries of the service: account -> value
    key_op          \* the last credential store call: its name, input and result

\* the variables of the backend supervisor
supervisor_vars == <<backend, log_lines, procs, cmd, broadcasts>>

\* the variables of the session store and of the streaming bridge
stream_vars == <<sessions, stream_tokens, cancelled, run, task, events>>

\* the variables of the session store commands and of the credential store
storage_vars == <<db, clock, append, store_op, keyring, key_op>>

vars == <<stream_vars, supervisor_vars, storage_vars>>

\* mutant: the task is spawned before the approve preset is written
StreamRunStepsSpawnFirst == <<"validate", "backend", "token", "spawn", "preset">>

\* The steps of stream_run in program order, one per stretch of code between
\* await points: "validate" (lines 191-199), "backend" (201-232), "token"
\* (234-240), "preset" (250-252) and "spawn" (254-301).
StreamRunSteps == <<"validate", "backend", "token", "preset", "spawn">>

StepIndex(step) == CHOOSE i \in 1..Len(StreamRunSteps) : StreamRunSteps[i] = step

\* the position after a step that did not return
StepAfter(step) ==
    IF StepIndex(step) < Len(StreamRunSteps)
    THEN StreamRunSteps[StepIndex(step) + 1]
    ELSE "returned"

\* a stream_run command that has not been issued
RunIdle ==
    [pc |-> "idle", request_id |-> "r1", session_id |-> "s1", run_mode |-> "idea",
     text_empty |-> FALSE, replay |-> 0, validated |-> FALSE, preset |-> FALSE]

\* a task that has not been spawned
TaskNone ==
    [pc |-> "none", replay_left |-> 0, sse |-> SseLocals(Ctx(StreamStateDefault, Absent)),
     chunks |-> 0, sse_status |-> 0, cancel_seen |-> FALSE, outcome |-> "none",
     final |-> <<"none", FALSE>>,
     cancel_pc |-> "none", after_cancel |-> 0, late |-> FALSE]

\* ------------------------------------------------------------------ backend supervisor (backend.rs)

\* commands that lock the supervisor in one behaviour
MaxCalls == 3
\* backend_start commands in one behaviour of StartSpec
MaxStarts == 1
\* child processes the supervisor spawns in one behaviour
MaxSpawns == 2
\* number of the last line a reader pushes between two clears of the ring
MaxLines == 1
\* commands in one behaviour of LogSpec
MaxLogCalls == 2
\* lines the readers push beyond the capacity of the ring in LogSpec
MaxOverflow == 1
\* number of the last line the stderr reader pushes in LogSpec
MaxStderrLines == 2
\* length of the longest answer of /list-apps in AppsSpec
MaxApps == 3

DEFAULT_HOST == "127.0.0.1"
DEFAULT_PORT == 8765
STARTUP_RETRIES == 16
MAX_LOG_LINES == 200
LOG_TAIL_LINES == 40
\* u16::MAX: the ports of BackendManager and BackendStartConfig are u16
U16Max == 65535

\* Option<T>: None, or Some(x)
None == <<>>
Some(x) == <<x>>

\* the process ids of the children, in spawn order
Pids == 1..MaxSpawns

\* A process the supervisor may spawn.  state is "none" (not spawned), "alive",
\* "exited" (ended by itself, not yet waited for) or "reaped" (waited for);
\* port is the --port it was spawned with.  unexpected records that it ended
\* by itself while the supervisor owned it, reported counts the status() calls
\* that returned exited = true for it, announced the backend-exited events.
ProcNone ==
    [state |-> "none", port |-> 0, unexpected |-> FALSE, reported |-> 0, announced |-> 0]

\* the children that have not been waited for
Unreaped(ps) == { pid \in Pids : ps[pid].state \in {"alive", "exited"} }

\* the children that run
Alive(ps) == { pid \in Pids : ps[pid].state = "alive" }

\* an error message: its text, the port it names (0 when it names none) and
\* the log lines appended under "Recent backend logs:"
Message(text, port) == [text |-> text, port |-> port, tail |-> <<>>]

\* lines 34-46 (repo_root has no part in the supervision)
BackendManagerDefault ==
    [child |-> 0, host |-> DEFAULT_HOST, port |-> DEFAULT_PORT,
     app_name |-> None, last_error |-> None]

\* lines 184-195; base_url is host and port
BackendStatusOf(b, running, health) ==
    [running |-> running, port |-> b.port, health |-> health, app_name |-> b.app_name,
     host |-> b.host, last_error |-> b.last_error]

\* mutant: the ring evicts only when it is over capacity
push_log_line_late_evict(logs, line) ==
    Append(IF Len(logs) > MAX_LOG_LINES THEN Tail(logs) ELSE logs, line)

\* lines 405-410
push_log_line(logs, line) ==
    Append(IF Len(logs) >= MAX_LOG_LINES THEN Tail(logs) ELSE logs, line)

Reverse(s) == [i \in 1..Len(s) |-> s[Len(s) + 1 - i]]

Take(s, limit) == SubSeq(s, 1, Min(limit, Len(s)))

\* lines 216-233: the last `limit` lines, oldest first (joined by "\n")
log_tail(logs, limit) ==
    IF logs = <<>> THEN <<>> ELSE Reverse(Take(Reverse(logs), limit))

\* lines 235-242
compose_error_with_log_tail(logs, base_message) ==
    LET tail == log_tail(logs, LOG_TAIL_LINES)
    IN  IF tail = <<>> THEN base_message ELSE [base_message EXCEPT !.tail = tail]

\* Child::try_wait: whether the process has ended, reaping it if so
try_wait(ps, pid) ==
    IF ps[pid].state = "alive"
    THEN [exited |-> FALSE, procs |-> ps]
    ELSE [exited |-> TRUE, procs |-> [ps EXCEPT ![pid].state = "reaped", ![pid].port = 0]]

\* mutant: the child is dropped without kill and wait
kill_and_wait_skipped(ps, pid) == ps

\* child.kill().await; child.wait().await (lines 139-140, 150-151)
kill_and_wait(ps, pid) == [ps EXCEPT ![pid].state = "reaped", ![pid].port = 0]

\* mutant: status() keeps the handle of a child that has exited
manager_status_keeps_handle(b, ps, logs, healthy, inspect_ok) ==
    LET has == b.child # 0
        w == IF has THEN try_wait(ps, b.child) ELSE [exited |-> FALSE, procs |-> ps]
        exited == has /\ w.exited
        b1 == IF exited
              THEN [b EXCEPT !.app_name = None,
                             !.last_error = Some(compose_error_with_log_tail(
                                 logs, Message("Local backend process exited unexpectedly", 0)))]
              ELSE b
        ps1 == IF exited THEN [w.procs EXCEPT ![b.child].reported = @ + 1] ELSE ps
        running == b1.child # 0
    IN  IF has /\ ~inspect_ok
        THEN [ok |-> FALSE, backend |-> b, procs |-> ps, exited |-> FALSE,
              status |-> BackendStatusOf(b, FALSE, FALSE)]
        ELSE [ok |-> TRUE, backend |-> b1, procs |-> ps1, exited |-> exited,
              status |-> BackendStatusOf(b1, running, running /\ healthy)]

\* BackendManager::status, lines 159-196.  healthy is the answer of GET /health on base_url, inspect_ok
\* is whether try_wait succeeds; ok = FALSE is the Err of line 173.
manager_status(b, ps, logs, healthy, inspect_ok) ==
    LET has == b.child # 0
        w == IF has THEN try_wait(ps, b.child) ELSE [exited |-> FALSE, procs |-> ps]
        exited == has /\ w.exited
        b1 == IF exited
              THEN [b EXCEPT !.child = 0, !.app_name = None,
                             !.last_error = Some(compose_error_with_log_tail(
                                 logs, Message("Local backend process exited unexpectedly", 0)))]
              ELSE b
        ps1 == IF exited THEN [w.procs EXCEPT ![b.child].reported = @ + 1] ELSE ps
        running == b1.child # 0
    IN  IF has /\ ~inspect_ok
        THEN [ok |-> FALSE, backend |-> b, procs |-> ps, exited |-> FALSE,
              status |-> BackendStatusOf(b, FALSE, FALSE)]
        ELSE [ok |-> TRUE, backend |-> b1, procs |-> ps1, exited |-> exited,
              status |-> BackendStatusOf(b1, running, running /\ healthy)]

\* mutant: stop() keeps the last error
stop_keeps_last_error(b, ps) ==
    [backend |-> [b EXCEPT !.child = 0, !.app_name = None],
     procs |-> IF b.child # 0 THEN kill_and_wait(ps, b.child) ELSE ps,
     log_lines |-> <<>>]

\* lines 148-157
stop(b, ps) ==
    [backend |-> [b EXCEPT !.child = 0, !.app_name = None, !.last_error = None],
     procs |-> IF b.child # 0 THEN kill_and_wait(ps, b.child) ELSE ps,
     log_lines |-> <<>>]

\* the auxiliary apps of the default-app policy (line 477)
AuxiliaryApps == {"reports", "tests", "desktop"}

\* mutant: the preferred app is chosen only when it comes first
choose_default_app_by_position(apps) ==
    IF apps = <<>> THEN None
    ELSE LET others == { i \in 1..Len(apps) : apps[i] \notin AuxiliaryApps }
         IN  IF others # {}
             THEN Some(apps[CHOOSE i \in others : \A j \in others : i <= j])
             ELSE Some(apps[1])

\* lines 466-482
choose_default_app(apps) ==
    IF apps = <<>> THEN None
    ELSE IF \E i \in 1..Len(apps) : apps[i] = "product_validator_search"
    THEN Some("product_validator_search")
    ELSE LET others == { i \in 1..Len(apps) : apps[i] \notin AuxiliaryApps }
         IN  IF others # {}
             THEN Some(apps[CHOOSE i \in others : \A j \in others : i <= j])
             ELSE Some(apps[1])

\* no command holds the supervisor mutex
CmdIdle ==
    [name |-> "none", pc |-> "idle", calls |-> 0, ran |-> {}, mark |-> 0,
     force_restart |-> FALSE, current |-> None, start_port |-> 0, offset |-> 0,
     tried |-> <<>>, wrapped |-> FALSE, child |-> 0, startup_error |-> None,
     exited |-> FALSE, result |-> None]

\* ------------------------------------------------------------------ session store tables (session_store.rs)

\* The store commands work on the tables with all their columns; the
\* streaming model above keeps the phase columns of the same table in
\* `sessions`.  Opening the database file and running a statement are taken
\* to succeed: a statement fails only by a constraint of the schema.

\* the largest value now_ms() returns
MaxClock == 2
\* rows the messages table holds at most in StoreSpec
MaxStoreMessages == 1
\* rows the messages table holds at most in TitleSpec
MaxMessages == 2
\* rows the messages table holds at most in ReplaySpec
MaxReplayRows == 3
\* the largest max_messages handed to replay_messages
MaxWindow == 1

\* infer_title_from_message keeps this many code points of a long text
TITLE_LIMIT == 56

StoreIds == {"s1", "s2"}
StoreApps == {"a1", "a2"}
StoreUsers == {"u1", "u2"}

\* str::to_ascii_lowercase on one token
ToLower(c) ==
    CASE c = "USER" -> "user"
      [] c = "DONE" -> "done"
      [] c = "HI" -> "hi"
      [] OTHER -> c

Lower(s) == [i \in 1..Len(s) |-> ToLower(s[i])]

\* split_whitespace().collect().join(" "): the tokens that are not whitespace
\* stay, a run of whitespace between two of them becomes one space, and the
\* runs at the two ends go
JoinWords(s) ==
    LET kept(i) ==
            \/ s[i] \notin Whitespace
            \/ /\ i > 1
               /\ s[i - 1] \notin Whitespace
               /\ \E j \in i + 1..Len(s) : s[j] \notin Whitespace
        idx == SelectSeq([i \in 1..Len(s) |-> i], kept)
    IN [k \in 1..Len(idx) |-> IF s[idx[k]] \in Whitespace THEN " " ELSE s[idx[k]]]

\* normalize_text: trim, lower-case, collapse whitespace
normalize_text(value) == JoinWords(Lower(Trim(value)))

\* format!("{}...", ...): the suffix of a truncated title
Ellipsis == <<".", ".", ".">>

\* mutant: the role is not looked at
infer_title_from_message_any_role(role, text) ==
    LET normalized == JoinWords(Trim(text)) IN
    IF normalized = <<>> THEN None
    ELSE IF Len(normalized) <= TITLE_LIMIT THEN Some(normalized)
    ELSE Some(SubSeq(normalized, 1, TITLE_LIMIT) \o Ellipsis)

\* infer_title_from_message: a token of the text is one code point
infer_title_from_message(role, text) ==
    LET normalized == JoinWords(Trim(text)) IN
    IF normalize_text(role) # <<"user">> THEN None
    ELSE IF normalized = <<>> THEN None
    ELSE IF Len(normalized) <= TITLE_LIMIT THEN Some(normalized)
    ELSE Some(SubSeq(normalized, 1, TITLE_LIMIT) \o Ellipsis)

\* SQL TRIM(x): spaces are removed at both ends, other whitespace stays
RECURSIVE SqlTrim(_)
SqlTrim(s) ==
    IF s = <<>> THEN s
    ELSE IF Head(s) = " " THEN SqlTrim(Tail(s))
    ELSE IF s[Len(s)] = " " THEN SqlTrim(SubSeq(s, 1, Len(s) - 1))
    ELSE s

\* a row of the sessions table
SessionMeta(id, title, app_name, user_id, phase, read_only, created_at_ms, updated_at_ms) ==
    [id |-> id, title |-> title, app_name |-> app_name, user_id |-> user_id,
     phase |-> phase, read_only |-> read_only,
     created_at_ms |-> created_at_ms, updated_at_ms |-> updated_at_ms]

\* a row of the messages table; rows stand in rowid order, the id column
\* (a fresh uuid) is left out
SessionMessage(session_id, role, text, status, created_at_ms) ==
    [session_id |-> session_id, role |-> role, text |-> text, status |-> status,
     created_at_ms |-> created_at_ms]

\* the database after init_schema on a new file
EmptyDb == [sessions |-> [id \in StoreIds |-> None], messages |-> <<>>]

\* SessionStore::get_session
get_session(d, session_id) == d.sessions[session_id]

\* mutant: INSERT OR REPLACE instead of INSERT OR IGNORE
store_create_session_replace(d, id, input, now) ==
    LET row == SessionMeta(id, <<>>, input.app_name, input.user_id,
                           "idea_input", FALSE, now, now)
        after == [d EXCEPT !.sessions[id] = Some(row),
                           !.messages = SelectSeq(d.messages,
                                                  LAMBDA m : m.session_id # id)]
    IN [ok |-> TRUE, db |-> after, row |-> get_session(after, id)[1]]

\* SessionStore::create_session for the id the input names or the fresh one:
\* INSERT OR IGNORE, then the row is read back
store_create_session(d, id, input, now) ==
    LET row == SessionMeta(id, <<>>, input.app_name, input.user_id,
                           "idea_input", FALSE, now, now)
        after == IF d.sessions[id] = None
                 THEN [d EXCEPT !.sessions[id] = Some(row)]
                 ELSE d
    IN [ok |-> TRUE, db |-> after, row |-> get_session(after, id)[1]]

\* the sequences that hold every element of a set once
Orders(S) ==
    {f \in [1..Cardinality(S) -> S] : \A i, j \in DOMAIN f : i # j => f[i] # f[j]}

\* ORDER BY updated_at_ms DESC, created_at_ms DESC: a stands before b, or the
\* two tie
OrderedDesc(a, b) ==
    \/ a.updated_at_ms > b.updated_at_ms
    \/ (a.updated_at_ms = b.updated_at_ms /\ a.created_at_ms >= b.created_at_ms)

\* mutant: the newest creation first, whatever was updated
list_sessions_by_creation(d, app_name, user_id) ==
    LET matching == {id \in StoreIds :
                        /\ d.sessions[id] # None
                        /\ d.sessions[id][1].app_name = app_name
                        /\ d.sessions[id][1].user_id = user_id}
    IN {[i \in DOMAIN f |-> d.sessions[f[i]][1]] :
          f \in {g \in Orders(matching) :
                    \A i, j \in DOMAIN g :
                       i < j => d.sessions[g[i]][1].created_at_ms
                                  >= d.sessions[g[j]][1].created_at_ms}}

\* SessionStore::list_sessions: the answers the query can give; rows that
\* tie in both columns come in an order the database picks
list_sessions(d, app_name, user_id) ==
    LET matching == {id \in StoreIds :
                        /\ d.sessions[id] # None
                        /\ d.sessions[id][1].app_name = app_name
                        /\ d.sessions[id][1].user_id = user_id}
    IN {[i \in DOMAIN f |-> d.sessions[f[i]][1]] :
          f \in {g \in Orders(matching) :
                    \A i, j \in DOMAIN g :
                       i < j => OrderedDesc(d.sessions[g[i]][1], d.sessions[g[j]][1])}}

\* mutant: the messages of the session stay behind
store_delete_session_no_cascade(d, session_id) ==
    [deleted |-> d.sessions[session_id] # None,
     db |-> [d EXCEPT !.sessions[session_id] = None]]

\* SessionStore::delete_session: DELETE with ON DELETE CASCADE on messages
\* (foreign keys are switched on by open_conn)
store_delete_session(d, session_id) ==
    [deleted |-> d.sessions[session_id] # None,
     db |-> [d EXCEPT !.sessions[session_id] = None,
                      !.messages = SelectSeq(d.messages,
                                             LAMBDA m : m.session_id # session_id)]]

\* ORDER BY created_at_ms ASC, rowid ASC on rows that stand in rowid order
RECURSIVE ByCreatedAt(_)
ByCreatedAt(rows) ==
    IF rows = <<>> THEN <<>>
    ELSE LET sorted == ByCreatedAt(SubSeq(rows, 1, Len(rows) - 1))
             m == rows[Len(rows)]
             k == Cardinality({i \in DOMAIN sorted :
                                  sorted[i].created_at_ms <= m.created_at_ms})
         IN SubSeq(sorted, 1, k) \o <<m>> \o SubSeq(sorted, k + 1, Len(sorted))

\* SessionStore::messages_get
messages_get(d, session_id) ==
    ByCreatedAt(SelectSeq(d.messages, LAMBDA m : m.session_id = session_id))

\* mutant: the foreign key is not enforced
insert_message_unchecked(d, message) ==
    [ok |-> TRUE, db |-> [d EXCEPT !.messages = Append(@, message)]]

\* the INSERT INTO messages of message_append: FOREIGN KEY(session_id) makes
\* it fail when the session row is gone
insert_message(d, message) ==
    IF d.sessions[message.session_id] = None
    THEN [ok |-> FALSE, db |-> d]
    ELSE [ok |-> TRUE, db |-> [d EXCEPT !.messages = Append(@, message)]]

\* the UPDATE sessions of message_append; it touches no row when the session
\* is gone
touch_session(d, session_id, title_candidate, update_time) ==
    IF d.sessions[session_id] = None THEN d
    ELSE LET row == d.sessions[session_id][1] IN
         [d EXCEPT !.sessions[session_id] =
              Some([row EXCEPT
                       !.title = IF SqlTrim(row.title) = <<>> /\ title_candidate # None
                                 THEN title_candidate[1]
                                 ELSE row.title,
                       !.updated_at_ms = update_time])]

\* SessionStore::phase_set with all columns: <<ok, database after>>
store_phase_set(d, session_id, phase, read_only, now) ==
    IF d.sessions[session_id] = None THEN <<FALSE, d>>
    ELSE <<TRUE, [d EXCEPT !.sessions[session_id] =
                     Some([d.sessions[session_id][1] EXCEPT
                              !.phase = phase, !.read_only = read_only,
                              !.updated_at_ms = now])]>>

\* ReplayMessage
ReplayMessage(role, text) == [role |-> role, text |-> text]

\* the filter_map of replay_messages
RECURSIVE ReplayFilter(_)
ReplayFilter(rows) ==
    IF rows = <<>> THEN <<>>
    ELSE LET m == Head(rows) IN
         IF Lower(Trim(m.status)) # <<"done">> THEN ReplayFilter(Tail(rows))
         ELSE IF Trim(m.text) = <<>> THEN ReplayFilter(Tail(rows))
         ELSE <<ReplayMessage(m.role, Trim(m.text))>> \o ReplayFilter(Tail(rows))

\* mutant: the status is compared as it is stored
replay_messages_exact_status(rows, current_text, max_messages) ==
    LET done == SelectSeq(rows, LAMBDA m : m.status = <<"done">> /\ Trim(m.text) # <<>>)
        messages == [i \in DOMAIN done |-> ReplayMessage(done[i].role, Trim(done[i].text))]
        popped == IF /\ messages # <<>>
                     /\ normalize_text(messages[Len(messages)].text)
                          = normalize_text(current_text)
                     /\ normalize_text(messages[Len(messages)].role) = <<"user">>
                  THEN SubSeq(messages, 1, Len(messages) - 1)
                  ELSE messages
    IN IF Len(popped) > max_messages
       THEN SubSeq(popped, Len(popped) - max_messages + 1, Len(popped))
       ELSE popped

\* SessionStore::replay_messages on the rows messages_get returned
replay_messages(rows, current_text, max_messages) ==
    LET messages == ReplayFilter(rows)
        popped == IF /\ messages # <<>>
                     /\ normalize_text(messages[Len(messages)].text)
                          = normalize_text(current_text)
                     /\ normalize_text(messages[Len(messages)].role) = <<"user">>
                  THEN SubSeq(messages, 1, Len(messages) - 1)
                  ELSE messages
    IN IF Len(popped) > max_messages
       THEN SubSeq(popped, Len(popped) - max_messages + 1, Len(popped))
       ELSE popped

\* no message_append is between two of its statements
AppendIdle == [pc |-> "idle", input |-> None, message |-> None]

\* no store call has returned yet
NoOp == [name |-> "none", input |-> None, result |-> None]

\* ------------------------------------------------------------------ credential store (keyring_store.rs)

\* The keychain is the environment: a call on an entry either works or
\* returns an error; `broken` is the set of accounts whose calls return an
\* error while one command runs.

GOOGLE_ACCOUNT == "google_api_key"
BRAVE_ACCOUNT == "brave_search_api_key"
GEMINI_ACCOUNT == "gemini_api_key"

\* the entries in the order set_keys, clear_keys and key_presence visit them
Accounts == <<GOOGLE_ACCOUNT, BRAVE_ACCOUNT, GEMINI_ACCOUNT>>

AccountSet == {Accounts[i] : i \in DOMAIN Accounts}

\* a keychain without entries of the service
EmptyKeyring == [a \in AccountSet |-> None]

\* mutant: an empty value removes the entry
set_value_deletes_empty(ring, account, value, broken) ==
    IF Trim(value) = <<>> THEN [ok |-> TRUE, ring |-> [ring EXCEPT ![account] = None]]
    ELSE IF account \in broken THEN [ok |-> FALSE, ring |-> ring]
    ELSE [ok |-> TRUE, ring |-> [ring EXCEPT ![account] = Some(value)]]

\* set_value: a blank value is skipped, any other is stored as it is
set_value(ring, account, value, broken) ==
    IF Trim(value) = <<>> THEN [ok |-> TRUE, ring |-> ring]
    ELSE IF account \in broken THEN [ok |-> FALSE, ring |-> ring]
    ELSE [ok |-> TRUE, ring |-> [ring EXCEPT ![account] = Some(value)]]

\* get_value: a missing entry and a blank one are both None; the macOS build
\* returns the value trimmed, the other builds as stored
get_value(ring, account, broken, macos) ==
    IF account \in broken THEN [ok |-> FALSE, value |-> None]
    ELSE IF ring[account] = None THEN [ok |-> TRUE, value |-> None]
    ELSE IF Trim(ring[account][1]) = <<>> THEN [ok |-> TRUE, value |-> None]
    ELSE [ok |-> TRUE,
          value |-> IF macos THEN Some(Trim(ring[account][1])) ELSE ring[account]]

\* delete_value: a missing entry is not an error
delete_value(ring, account, broken) ==
    IF account \in broken THEN [ok |-> FALSE, ring |-> ring]
    ELSE [ok |-> TRUE, ring |-> [ring EXCEPT ![account] = None]]

\* KeyStore::key_presence, reduced to the three booleans
key_presence(ring, broken, macos) ==
    IF \E a \in AccountSet : ~get_value(ring, a, broken, macos).ok
    THEN [ok |-> FALSE, set |-> [a \in AccountSet |-> FALSE]]
    ELSE [ok |-> TRUE,
          set |-> [a \in AccountSet |-> get_value(ring, a, broken, macos).value # None]]

\* the three `if let Some(value) = ... { set_value(...)? }` of set_keys
RECURSIVE SetValues(_, _, _, _)
SetValues(ring, keys, accounts, broken) ==
    IF accounts = <<>> THEN [ok |-> TRUE, ring |-> ring]
    ELSE IF keys[Head(accounts)] = None
         THEN SetValues(ring, keys, Tail(accounts), broken)
         ELSE LET r == set_value(ring, Head(accounts), keys[Head(accounts)][1], broken) IN
              IF ~r.ok THEN r
              ELSE SetValues(r.ring, keys, Tail(accounts), broken)

\* KeyStore::set_keys: keys maps each account to the Option the input holds
\* for it; the entries written before an error stay written
set_keys(ring, keys, broken, macos) ==
    LET provided == [a \in AccountSet |->
                        keys[a] # None /\ Trim(keys[a][1]) # <<>>]
        written == SetValues(ring, keys, Accounts, broken)
        presence == key_presence(written.ring, broken, macos)
    IN IF ~written.ok THEN written
       ELSE IF ~presence.ok THEN [ok |-> FALSE, ring |-> written.ring]
       ELSE IF \E a \in AccountSet : provided[a] /\ ~presence.set[a]
            THEN [ok |-> FALSE, ring |-> written.ring]
            ELSE [ok |-> TRUE, ring |-> written.ring]

\* KeyStore::clear_keys: the deletes stop at the first error
RECURSIVE DeleteValues(_, _, _)
DeleteValues(ring, accounts, broken) ==
    IF accounts = <<>> THEN [ok |-> TRUE, ring |-> ring]
    ELSE LET r == delete_value(ring, Head(accounts), broken) IN
         IF ~r.ok THEN r
         ELSE DeleteValues(r.ring, Tail(accounts), broken)

clear_keys(ring, broken) == DeleteValues(ring, Accounts, broken)

Init ==
    /\ sessions = [id \in SessionIds |-> NoRow]
    /\ stream_tokens = [rid \in RequestIds |-> 0]
    /\ cancelled = {}
    /\ run = [c \in Runs |-> RunIdle]
    /\ task = [t \in Runs |-> TaskNone]
    /\ events = [t \in Runs |-> <<>>]
    /\ backend = BackendManagerDefault
    /\ log_lines = <<>>
    /\ procs = [pid \in Pids |-> ProcNone]
    /\ cmd = CmdIdle
    /\ broadcasts = <<>>
    /\ db = EmptyDb
    /\ clock = 0
    /\ append = AppendIdle
    /\ store_op = NoOp
    /\ keyring = EmptyKeyring
    /\ key_op = NoOp

\* the task is between its spawn and its stream_done
InFlight(pc) == pc \in {"ensure", "replay", "sse_request", "sse_read", "fallback"}

\* CancellationToken::cancel on a set of tokens; each task's position at the
\* first cancel of its token is noted for the cancellation properties
CancelTokens(tokens, tk) ==
    [t \in Runs |->
        IF t \in tokens /\ t \notin cancelled /\ tk[t].cancel_pc = "none"
        THEN [tk[t] EXCEPT !.cancel_pc = tk[t].pc]
        ELSE tk[t]]

\* ------------------------------------------------------------------ commands.rs: session commands

\* session_create
SessionCreate(id) ==
    /\ sessions' = create_session(sessions, id)
    /\ UNCHANGED <<storage_vars, supervisor_vars, stream_tokens, cancelled, run, task, events>>

\* session_delete
SessionDelete(id) ==
    /\ sessions' = delete_session(sessions, id)
    /\ UNCHANGED <<storage_vars, supervisor_vars, stream_tokens, cancelled, run, task, events>>

\* session_phase_set: the frontend's phase and read_only go to phase_set as
\* they are
SessionPhaseSet(id, phase, read_only) ==
    /\ sessions' = phase_set(sessions, id, phase, read_only)[2]
    /\ UNCHANGED <<storage_vars, supervisor_vars, stream_tokens, cancelled, run, task, events>>

\* mutant: the token is cancelled but stays in the map
stream_cancel_keeps_entry(map, request_id) ==
    IF map[request_id] # 0
    THEN [ok |-> TRUE, message |-> "Cancelled stream",
          map |-> map, cancel |-> {map[request_id]}]
    ELSE [ok |-> TRUE, message |-> "No active stream for request",
          map |-> map, cancel |-> {}]

\* stream_cancel on the token map: the ack, the map after it and the tokens
\* it cancels
stream_cancel(map, request_id) ==
    IF map[request_id] # 0
    THEN [ok |-> TRUE, message |-> "Cancelled stream",
          map |-> [map EXCEPT ![request_id] = 0], cancel |-> {map[request_id]}]
    ELSE [ok |-> TRUE, message |-> "No active stream for request",
          map |-> map, cancel |-> {}]

\* the frontend invokes stream_cancel(request_id)
StreamCancel(request_id) ==
    /\ LET r == stream_cancel(stream_tokens, request_id)
       IN /\ cancelled' = cancelled \cup r.cancel
          /\ task' = CancelTokens(r.cancel, task)
          /\ stream_tokens' = r.map
    /\ UNCHANGED <<storage_vars, supervisor_vars, sessions, run, events>>

\* ------------------------------------------------------------------ commands.rs: stream_run

\* the frontend invokes stream_run(input)
StreamRunCall(c, request_id, session_id, run_mode, text_empty) ==
    /\ run[c].pc = "idle"
    /\ (IF c = 1 THEN TRUE ELSE run[c - 1].pc # "idle")
    /\ run' = [run EXCEPT ![c] =
                   [RunIdle EXCEPT !.pc = StreamRunSteps[1],
                                   !.request_id = request_id,
                                   !.session_id = session_id,
                                   !.run_mode = run_mode,
                                   !.text_empty = text_empty]]
    /\ UNCHANGED <<storage_vars, supervisor_vars, sessions, stream_tokens, cancelled, task, events>>

\* lines 191-199: the text check, validate_run_mode and replay_messages; the
\* replay window is as long as the session's stored messages make it
StreamRunValidate(c, replay) ==
    /\ run[c].pc = "validate"
    /\ IF run[c].text_empty
       THEN run' = [run EXCEPT ![c].pc = "failed"]
       ELSE IF ~validate_run_mode(sessions, run[c].session_id, run[c].run_mode)
       THEN run' = [run EXCEPT ![c].pc = "failed"]
       ELSE run' = [run EXCEPT ![c].pc = StepAfter("validate"),
                               ![c].validated = TRUE,
                               ![c].replay = replay]
    /\ UNCHANGED <<storage_vars, supervisor_vars, sessions, stream_tokens, cancelled, task, events>>

\* lines 201-232: the supervisor is running and healthy, or is restarted, or
\* the command fails
StreamRunBackend(c, available) ==
    /\ run[c].pc = "backend"
    /\ run' = [run EXCEPT ![c].pc = IF available THEN StepAfter("backend") ELSE "failed"]
    /\ UNCHANGED <<storage_vars, supervisor_vars, sessions, stream_tokens, cancelled, task, events>>

\* mutant: the token that is replaced is dropped without cancel()
StreamRunTokenNoCancel(c) ==
    /\ run[c].pc = "token"
    /\ stream_tokens' = [stream_tokens EXCEPT ![run[c].request_id] = c]
    /\ run' = [run EXCEPT ![c].pc = StepAfter("token")]
    /\ UNCHANGED <<storage_vars, supervisor_vars, sessions, cancelled, task, events>>

\* lines 234-240: a fresh token is stored under the request id; a token it
\* replaces is cancelled
StreamRunToken(c) ==
    /\ run[c].pc = "token"
    /\ LET existing == stream_tokens[run[c].request_id]
       IN /\ stream_tokens' = [stream_tokens EXCEPT ![run[c].request_id] = c]
          /\ cancelled' = IF existing # 0 THEN cancelled \cup {existing} ELSE cancelled
          /\ task' = IF existing # 0 THEN CancelTokens({existing}, task) ELSE task
    /\ run' = [run EXCEPT ![c].pc = StepAfter("token")]
    /\ UNCHANGED <<storage_vars, supervisor_vars, sessions, events>>

\* lines 250-252: approve sets (running, read_only) and fails when no row
\* matches
StreamRunPreset(c) ==
    /\ run[c].pc = "preset"
    /\ IF run[c].run_mode = "approve"
       THEN LET set == phase_set(sessions, run[c].session_id, "running", TRUE)
            IN /\ sessions' = set[2]
               /\ run' = [run EXCEPT ![c].pc = IF set[1] THEN StepAfter("preset")
                                               ELSE "failed",
                                     ![c].preset = set[1]]
       ELSE /\ run' = [run EXCEPT ![c].pc = StepAfter("preset")]
            /\ UNCHANGED sessions
    /\ UNCHANGED <<storage_vars, supervisor_vars, stream_tokens, cancelled, task, events>>

\* lines 254-301: tokio::spawn of the task, then the ack
StreamRunSpawn(c) ==
    /\ run[c].pc = "spawn"
    /\ task' = [task EXCEPT ![c] = [TaskNone EXCEPT !.pc = "ensure",
                                                    !.replay_left = run[c].replay]]
    /\ run' = [run EXCEPT ![c].pc = StepAfter("spawn")]
    /\ UNCHANGED <<storage_vars, supervisor_vars, sessions, stream_tokens, cancelled, events>>

\* ------------------------------------------------------------------ stream.rs: the streaming task

\* the SSE chunks the upstream sends
Chunks ==
    { <<"data:", " ", "{hel}", "\n", "\n">>,
      <<"data:", "{error}", "\r", "\n", "\r", "\n">>,
      <<"data:", "{hello}", "\n">>,
      <<"data:", "[DONE]", "\n", "\n">> }

\* the statuses /run_sse and /run answer with
HttpStatuses == {200, 404, 405, 500, 501}

\* the bodies of a 2xx answer of /run
FallbackBodies == { <<"[hel,hello]">>, <<"{events:[error]}">>, <<"{hel}">>, <<"not json">> }

is_success(status) == status \in 200..299

\* mutant: a server error of /run_sse also falls back to /run
fallback_allowed_server_error(status) == status \in {404, 405, 500, 501}

\* run_stream_task, line 168: /run_sse is clearly unsupported by the backend
fallback_allowed(status) == status \in {404, 405, 501}

\* a step of task t: its new locals and the events the step emitted.  A step
\* that emits after the token was cancelled, other than the one that emits
\* "Run cancelled.", is counted.
TaskStep(t, locals, out) ==
    /\ task' = [task EXCEPT ![t] =
           IF t \in cancelled /\ out # <<>>
              /\ \A i \in 1..Len(out) : out[i] # RunCancelled
           THEN [locals EXCEPT !.after_cancel = @ + 1]
           ELSE locals]
    /\ events' = [events EXCEPT ![t] = @ \o out]

\* run_stream_task, lines 124-145: ensure_adk_session, then stream_open and the
\* first progress
TaskEnsure(t, created) ==
    /\ task[t].pc = "ensure"
    /\ IF created
       THEN TaskStep(t,
                [task[t] EXCEPT !.pc = IF task[t].replay_left > 0
                                       THEN "replay" ELSE "sse_request"],
                <<StreamOpen, StreamProgress(5, <<"Rehydrating context">>, 0, 0)>>)
       ELSE TaskStep(t, [task[t] EXCEPT !.pc = "hook", !.outcome = "Err"], <<>>)
    /\ UNCHANGED <<storage_vars, supervisor_vars, sessions, stream_tokens, cancelled, run>>

\* replay_history, one iteration (lines 530-575) and the caller's handling of
\* its error (lines 148-161)
TaskReplay(t, replayed) ==
    /\ task[t].pc = "replay"
    /\ IF t \in cancelled \/ ~replayed
       THEN TaskStep(t, [task[t] EXCEPT !.pc = "sse_request", !.replay_left = 0],
                     <<StreamTool("info", "context_replay")>>)
       ELSE TaskStep(t,
                [task[t] EXCEPT !.replay_left = @ - 1,
                                !.pc = IF task[t].replay_left = 1
                                       THEN "sse_request" ELSE "replay"],
                <<>>)
    /\ UNCHANGED <<storage_vars, supervisor_vars, sessions, stream_tokens, cancelled, run>>

\* lines 172-191 and 392-422: a stream_error, then stream_done without usage
ErrorThenDone(message) == <<StreamError(message, TRUE), StreamDone(Absent)>>

\* run_sse_stream up to the read loop (lines 203-234) and the caller's
\* handling of its failure (lines 164-194); sent = FALSE is a transport error
TaskSseRequest(t, sent, status) ==
    /\ task[t].pc = "sse_request"
    /\ IF ~sent
       THEN TaskStep(t, [task[t] EXCEPT !.pc = "hook", !.outcome = "Failed"],
                     ErrorThenDone("SSE stream failed"))
       ELSE IF is_success(status)
       THEN LET ctx == emit_progress_if_changed(Ctx(StreamStateDefault, Absent), FALSE)
            IN TaskStep(t,
                   [task[t] EXCEPT !.pc = "sse_read", !.sse_status = status,
                                   !.sse = SseLocals([ctx EXCEPT !.out = <<>>])],
                   ctx.out)
       ELSE IF fallback_allowed(status)
       THEN TaskStep(t, [task[t] EXCEPT !.pc = "fallback", !.sse_status = status], <<>>)
       ELSE TaskStep(t, [task[t] EXCEPT !.pc = "hook", !.outcome = "Failed",
                                        !.sse_status = status],
                     ErrorThenDone("SSE stream failed"))
    /\ UNCHANGED <<storage_vars, supervisor_vars, sessions, stream_tokens, cancelled, run>>

\* the task leaves the read loop (lines 286-345): the events that end the
\* stream and the outcome; cancel_seen is the local "cancelled"
SseLeave(t, r, cancel_seen) ==
    LET ctx == EndOfStream(r, cancel_seen)
    IN TaskStep(t,
           [task[t] EXCEPT !.pc = "hook", !.outcome = SseOutcome(ctx, cancel_seen),
                           !.cancel_seen = cancel_seen,
                           !.late = FlushResidual(r).late,
                           !.sse = SseLocals(Ctx(StreamStateDefault, Absent))],
           ctx.out)

\* select!, the branch cancel.cancelled() (lines 238-241): taken only when the
\* token is cancelled
TaskSseCancelled(t) ==
    /\ task[t].pc = "sse_read"
    /\ t \in cancelled
    /\ SseLeave(t, task[t].sse, TRUE)
    /\ UNCHANGED <<storage_vars, supervisor_vars, sessions, stream_tokens, cancelled, run>>

\* select!, the branch stream.next() = None (line 246)
TaskSseClosed(t) ==
    /\ task[t].pc = "sse_read"
    /\ SseLeave(t, task[t].sse, FALSE)
    /\ UNCHANGED <<storage_vars, supervisor_vars, sessions, stream_tokens, cancelled, run>>

\* select!, the branch stream.next() = Some(Err) (lines 247-252) and the
\* caller's handling (lines 172-191)
TaskSseReadError(t) ==
    /\ task[t].pc = "sse_read"
    /\ TaskStep(t,
           [task[t] EXCEPT !.pc = "hook", !.outcome = "Failed",
                           !.sse = SseLocals(Ctx(StreamStateDefault, Absent))],
           ErrorThenDone("SSE stream failed"))
    /\ UNCHANGED <<storage_vars, supervisor_vars, sessions, stream_tokens, cancelled, run>>

\* select!, the branch stream.next() = Some(Ok(chunk)) (lines 253-282); when
\* the chunk ends the stream the loop is left in the same step
TaskSseChunk(t, chunk, max_chunks) ==
    /\ task[t].pc = "sse_read"
    /\ task[t].chunks < max_chunks
    /\ LET r == ReadChunk(task[t].sse, chunk)
           kept == [r EXCEPT !.ctx.out = <<>>]
       IN IF r.done
          THEN SseLeave(t, r, FALSE)
          ELSE TaskStep(t, [task[t] EXCEPT !.sse = kept, !.chunks = @ + 1,
                                           !.late = r.late],
                        r.ctx.out)
    /\ UNCHANGED <<storage_vars, supervisor_vars, sessions, stream_tokens, cancelled, run>>

\* lines 438-460 of run_non_streaming_fallback: the events of a 2xx answer
FallbackEvents(evs) ==
    LET c1 == emit_progress_if_changed(Ctx(StreamStateDefault, Absent), FALSE)
        c2 == ProcessEvents(c1, evs)
        c3 == Emit(c2, StreamDone(c2.usage))
    IN emit_progress_if_changed(c3, TRUE)

\* run_non_streaming_fallback (lines 382-461); sent = FALSE is a transport
\* error of send_run_request
TaskFallback(t, sent, status, body) ==
    /\ task[t].pc = "fallback"
    /\ LET parsed == ParseJson(body)
           found == extract_run_events(parsed.value)
           ctx == FallbackEvents(found.events)
       IN IF ~sent
          THEN TaskStep(t, [task[t] EXCEPT !.pc = "hook", !.outcome = "Err"], <<>>)
          ELSE IF ~is_success(status)
          THEN TaskStep(t, [task[t] EXCEPT !.pc = "hook", !.outcome = "Failed"],
                        ErrorThenDone("Streaming failed and fallback /run failed"))
          ELSE IF ~parsed.ok \/ ~found.some
          THEN TaskStep(t, [task[t] EXCEPT !.pc = "hook", !.outcome = "Err"], <<>>)
          ELSE TaskStep(t,
                   [task[t] EXCEPT !.pc = "hook",
                                   !.outcome = IF ctx.state.saw_error
                                               THEN "Failed" ELSE "Completed"],
                   ctx.out)
    /\ UNCHANGED <<storage_vars, supervisor_vars, sessions, stream_tokens, cancelled, run>>

\* mutant: an Err of the task is not reported before the phase is written
TaskHookUnreported(t) ==
    /\ task[t].pc = "hook"
    /\ LET succeeded == task[t].outcome = "Completed"
           final == phase_after_run(run[t].run_mode, succeeded)
       IN /\ TaskStep(t, [task[t] EXCEPT !.pc = "remove_token", !.final = final], <<>>)
          /\ sessions' = phase_set(sessions, run[t].session_id, final[1], final[2])[2]
    /\ UNCHANGED <<storage_vars, supervisor_vars, stream_tokens, cancelled, run>>

\* the spawned closure of stream_run after run_stream_task returns (lines
\* 265-292): an Err is reported as stream_error and stream_done, then the phase
\* is written with phase_set, whose failure is ignored
TaskHook(t) ==
    /\ task[t].pc = "hook"
    /\ LET succeeded == task[t].outcome = "Completed"
           final == phase_after_run(run[t].run_mode, succeeded)
       IN /\ TaskStep(t, [task[t] EXCEPT !.pc = "remove_token", !.final = final],
                      IF task[t].outcome = "Err"
                      THEN ErrorThenDone("task error") ELSE <<>>)
          /\ sessions' = phase_set(sessions, run[t].session_id, final[1], final[2])[2]
    /\ UNCHANGED <<storage_vars, supervisor_vars, stream_tokens, cancelled, run>>

\* mutant: the closure ends without map.remove(&request_id)
TaskRemoveTokenSkipped(t) ==
    /\ task[t].pc = "remove_token"
    /\ task' = [task EXCEPT ![t].pc = "done"]
    /\ UNCHANGED <<storage_vars, supervisor_vars, sessions, stream_tokens, cancelled, run, events>>

\* lines 294-295: map.remove(&request_id)
TaskRemoveToken(t) ==
    /\ task[t].pc = "remove_token"
    /\ stream_tokens' = [stream_tokens EXCEPT ![run[t].request_id] = 0]
    /\ task' = [task EXCEPT ![t].pc = "done"]
    /\ UNCHANGED <<storage_vars, supervisor_vars, sessions, cancelled, run, events>>

\* ------------------------------------------------------------------ specification

\* a step of the commands and tasks of the stream_run commands in runs
StepOf(runs, chunks, max_chunks) ==
    \/ \E id \in SessionIds : SessionCreate(id)
    \/ \E id \in SessionIds : SessionDelete(id)
    \/ \E id \in SessionIds, phase \in SessionPhase, read_only \in BOOLEAN :
           SessionPhaseSet(id, phase, read_only)
    \/ \E request_id \in RequestIds : StreamCancel(request_id)
    \/ \E c \in runs, request_id \in RequestIds, session_id \in SessionIds,
          run_mode \in RunMode, text_empty \in BOOLEAN :
           StreamRunCall(c, request_id, session_id, run_mode, text_empty)
    \/ \E c \in runs, replay \in 0..MaxReplay : StreamRunValidate(c, replay)
    \/ \E c \in runs, available \in BOOLEAN : StreamRunBackend(c, available)
    \/ \E c \in runs : StreamRunToken(c)
    \/ \E c \in runs : StreamRunPreset(c)
    \/ \E c \in runs : StreamRunSpawn(c)
    \/ \E t \in runs, created \in BOOLEAN : TaskEnsure(t, created)
    \/ \E t \in runs, replayed \in BOOLEAN : TaskReplay(t, replayed)
    \/ \E t \in runs, sent \in BOOLEAN, status \in HttpStatuses :
           TaskSseRequest(t, sent, status)
    \/ \E t \in runs : TaskSseCancelled(t)
    \/ \E t \in runs : TaskSseClosed(t)
    \/ \E t \in runs : TaskSseReadError(t)
    \/ \E t \in runs, chunk \in chunks : TaskSseChunk(t, chunk, max_chunks)
    \/ \E t \in runs, sent \in BOOLEAN, status \in HttpStatuses,
          body \in FallbackBodies : TaskFallback(t, sent, status, body)
    \/ \E t \in runs : TaskHook(t)
    \/ \E t \in runs : TaskRemoveToken(t)

Next == StepOf(SoloRuns, Chunks, MaxChunks)

Spec == Init /\ [][Next]_vars

\* Two stream_run commands on one writable session, with a healthy backend
\* that streams one frame per chunk; the frontend sends no stream_cancel, so a
\* token is cancelled only by the insertion that replaces it.
PairChunks == { <<"data:", " ", "{hel}", "\n", "\n">> }

PairNext ==
    \/ \E id \in SessionIds : SessionCreate(id)
    \/ \E c \in Runs, request_id \in RequestIds, session_id \in SessionIds :
           StreamRunCall(c, request_id, session_id, "idea", FALSE)
    \/ \E c \in Runs : StreamRunValidate(c, 0)
    \/ \E c \in Runs : StreamRunBackend(c, TRUE)
    \/ \E c \in Runs : StreamRunToken(c)
    \/ \E c \in Runs : StreamRunPreset(c)
    \/ \E c \in Runs : StreamRunSpawn(c)
    \/ \E t \in Runs : TaskEnsure(t, TRUE)
    \/ \E t \in Runs : TaskSseRequest(t, TRUE, 200)
    \/ \E t \in Runs : TaskSseCancelled(t)
    \/ \E t \in Runs : TaskSseClosed(t)
    \/ \E t \in Runs, chunk \in PairChunks : TaskSseChunk(t, chunk, MaxChunks)
    \/ \E t \in Runs : TaskHook(t)
    \/ \E t \in Runs : TaskRemoveToken(t)

PairSpec == Init /\ [][PairNext]_vars

\* One stream_run on a writable session with a healthy backend, whose /run_sse
\* streams up to MaxFrames chunks of one or two frames each or is unsupported;
\* the frontend may cancel at any time.
StreamChunks ==
    { <<"data:", " ", "{hel}", "\n", "\n">>,
      <<"data:", "{hello}", "\r", "\n", "\r", "\n">>,
      <<"data:", "{call}", "\n", "\n">>,
      <<"data:", "{resp}", "\n", "\n">>,
      <<"data:", "{author}", "\n", "\n">>,
      <<"data:", "{user}", "\n", "\n">>,
      <<"data:", "{blank}", "\n", "\n">>,
      <<"data:", "{error}", "\n", "\n">>,
      <<"data:", "[DONE]", "\n", "\n">>,
      <<"data:", " ", "[DONE]", " ", "\n", "\n", "data:", "{hello}", "\n", "\n">> }

StreamBodies == { <<"[hel,call,hel]">>, <<"[hel,hello]">> }

StreamNext ==
    \/ \E id \in SessionIds : SessionCreate(id)
    \/ \E session_id \in SessionIds : StreamRunCall(1, "r1", session_id, "idea", FALSE)
    \/ StreamRunValidate(1, 0)
    \/ StreamRunBackend(1, TRUE)
    \/ StreamRunToken(1)
    \/ StreamRunPreset(1)
    \/ StreamRunSpawn(1)
    \/ StreamCancel("r1")
    \/ TaskEnsure(1, TRUE)
    \/ \E status \in {200, 405} : TaskSseRequest(1, TRUE, status)
    \/ TaskSseCancelled(1)
    \/ TaskSseClosed(1)
    \/ \E chunk \in StreamChunks : TaskSseChunk(1, chunk, MaxFrames)
    \/ \E body \in StreamBodies : TaskFallback(1, TRUE, 200, body)
    \/ TaskHook(1)
    \/ TaskRemoveToken(1)

StreamSpec == Init /\ [][StreamNext]_vars

\* ------------------------------------------------------------------ supervisor commands (commands.rs, backend.rs)

\* the configurations backend_start is called with: None leaves a field alone
BackendConfigs ==
    [host : {None}, port : {None, Some(U16Max)}, force_restart : BOOLEAN]

\* the answers of GET /list-apps: a failure, or a list of app names
ListAnswers ==
    { [ok |-> FALSE, apps |-> <<>>],
      [ok |-> TRUE, apps |-> <<"reports", "demo_agent">>] }

\* the outcomes of Command::spawn: a child, "No such file or directory", or
\* another error
SpawnResults == {"ok", "not_found", "error"}

\* An event emitted to every window, app.emit(event, payload).  The payload of
\* backend-status is the status the command returns (cmd.result), that of
\* backend-exited the last error of that status; the log keeps the name.
Broadcast(event, payload) == [event |-> event]

\* the supervisor mutex is free and a further command may take it
MutexFree(max_calls) ==
    /\ cmd.pc \in {"idle", "returned", "panicked"}
    /\ cmd.calls < max_calls

\* the locals of a command that has just taken the mutex; mark is the number
\* of events broadcast before it
Locked(name) ==
    [CmdIdle EXCEPT !.name = name, !.calls = cmd.calls + 1, !.mark = Len(broadcasts)]

\* the command returns and releases the mutex; the locals of start are gone
Returned(c, result) ==
    [c EXCEPT !.pc = "returned", !.result = result, !.start_port = 0, !.offset = 0,
              !.tried = <<>>, !.wrapped = FALSE, !.startup_error = None]

\* mutant: start never returns the current status
returns_current_never(current, force_restart) == FALSE

\* line 69
returns_current(current, force_restart) ==
    current.running /\ current.health /\ ~force_restart

\* BackendManager::start up to the loop, lines 54-78: whether it returns at
\* once, and what it leaves
start_begin(c, b, ps, logs, config, healthy, inspect_ok) ==
    LET merged == [b EXCEPT !.host = IF config.host # None THEN config.host[1] ELSE @,
                            !.port = IF config.port # None THEN config.port[1] ELSE @]
        st == manager_status(merged, ps, logs, healthy, inspect_ok)
        c1 == [c EXCEPT !.ran = @ \cup {"start"}, !.force_restart = config.force_restart]
        halted == stop(st.backend, st.procs)
    IN  IF ~st.ok
        THEN [returns |-> TRUE, backend |-> merged, procs |-> ps, log_lines |-> logs,
              cmd |-> c1,
              result |-> <<"err", Message("Failed to check backend process status", 0)>>]
        ELSE IF returns_current(st.status, config.force_restart)
        THEN [returns |-> TRUE, backend |-> st.backend, procs |-> st.procs,
              log_lines |-> logs, cmd |-> [c1 EXCEPT !.current = Some(st.status)],
              result |-> <<"ok", st.status>>]
        ELSE [returns |-> FALSE, backend |-> halted.backend, procs |-> halted.procs,
              log_lines |-> halted.log_lines, result |-> None,
              cmd |-> [c1 EXCEPT !.pc = "try", !.current = Some(st.status),
                                 !.start_port = merged.port, !.offset = 0]]

\* what the caller of start does with its result: backend_start (commands.rs
\* 51-54), backend_list_apps (96-115) and stream_run (212-231)
after_start(c, result) ==
    LET ok == result[1] = "ok"
        restarted == result[2]
    IN  CASE c.name = "backend_start" ->
               [cmd |-> Returned(c, result),
                emitted |-> IF ok THEN <<Broadcast("backend-status", restarted)>> ELSE <<>>]
          [] c.name = "backend_list_apps" ->
               [cmd |-> IF ~ok THEN Returned(c, result)
                        ELSE IF ~restarted.running \/ ~restarted.health
                        THEN Returned(c, <<"err", Message("Backend is unavailable", 0)>>)
                        ELSE [c EXCEPT !.pc = "list"],
                emitted |-> <<>>]
          [] c.name = "stream_run" ->
               [cmd |-> IF ~ok THEN Returned(c, result)
                        ELSE IF ~restarted.health
                        THEN Returned(c, <<"err", Message("Backend is unhealthy and restart failed", 0)>>)
                        ELSE Returned(c, result),
                emitted |-> <<>>]

\* start returns `result` to the command, which goes on from there
StartReturns(c, result) ==
    /\ cmd' = after_start(c, result).cmd
    /\ broadcasts' = broadcasts \o after_start(c, result).emitted

\* the command calls start: lines 54-78 of backend.rs
StartBegins(c, b, ps, config, healthy, inspect_ok) ==
    LET s == start_begin(c, b, ps, log_lines, config, healthy, inspect_ok)
    IN  /\ backend' = s.backend
        /\ procs' = s.procs
        /\ log_lines' = s.log_lines
        /\ IF s.returns
           THEN StartReturns(s.cmd, s.result)
           ELSE cmd' = s.cmd /\ UNCHANGED broadcasts

\* the loop goes on with the next offset, or is over and start returns the
\* recorded error (lines 80, 143-145)
StartContinues(c) ==
    IF c.offset + 1 < STARTUP_RETRIES
    THEN cmd' = [c EXCEPT !.pc = "try", !.offset = @ + 1] /\ UNCHANGED broadcasts
    ELSE StartReturns(c, <<"err", IF c.startup_error # None THEN c.startup_error[1]
                                  ELSE Message("Failed to start ADK web backend after retries", 0)>>)

\* backend_start, commands.rs 43-55, up to the loop of start
BackendStartCall(config, healthy, inspect_ok, max_calls) ==
    /\ MutexFree(max_calls)
    /\ StartBegins(Locked("backend_start"), backend, procs, config, healthy, inspect_ok)
    /\ UNCHANGED <<storage_vars, stream_vars>>

\* One pass of the loop of start up to the spawn, lines 80-110.  The sum of
\* line 81 is a u16 addition: when it overflows, a build with overflow checks
\* panics and a build without them wraps; `panics` is the build's choice,
\* kept for the rest of the loop by cmd.wrapped.
StartTry(available, spawned, panics) ==
    /\ cmd.pc = "try"
    /\ LET sum == cmd.start_port + cmd.offset
           overflow == sum > U16Max
           candidate_port == sum % (U16Max + 1)
           c1 == [cmd EXCEPT !.tried = Append(@, candidate_port), !.wrapped = @ \/ overflow,
                             !.current = None]
           free == { pid \in Pids : procs[pid].state = "none" }
           pid == CHOOSE p \in free : \A q \in free : p <= q
       IN  /\ panics => overflow /\ ~cmd.wrapped
           /\ IF panics
              THEN /\ cmd' = [cmd EXCEPT !.pc = "panicked"]
                   /\ UNCHANGED <<procs, broadcasts>>
              ELSE IF ~available
              THEN /\ StartContinues([c1 EXCEPT !.startup_error =
                                         Some(Message("Port is already in use", candidate_port))])
                   /\ UNCHANGED procs
              ELSE IF spawned = "not_found"
              THEN /\ StartReturns(c1, <<"err", Message("uv not found", 0)>>)
                   /\ UNCHANGED procs
              ELSE IF spawned = "error"
              THEN /\ StartContinues([c1 EXCEPT !.startup_error =
                                         Some(Message("Failed to spawn backend process", 0))])
                   /\ UNCHANGED procs
              ELSE /\ free # {}
                   /\ procs' = [procs EXCEPT ![pid] =
                                   [ProcNone EXCEPT !.state = "alive", !.port = candidate_port]]
                   /\ cmd' = [c1 EXCEPT !.pc = "health", !.child = pid]
                   /\ UNCHANGED broadcasts
    /\ UNCHANGED <<storage_vars, stream_vars, backend, log_lines>>

\* The rest of the pass, lines 112-140: await_health has answered.  On success
\* the child is adopted, /list-apps is asked and status() is returned; else the
\* failure is recorded and the child is killed and waited for.
StartHealth(healthy, answer, healthy_after, inspect_ok) ==
    /\ cmd.pc = "health"
    /\ LET candidate_port == cmd.tried[Len(cmd.tried)]
           owned == [backend EXCEPT !.child = cmd.child, !.port = candidate_port,
                                    !.app_name = choose_default_app(
                                        IF answer.ok THEN answer.apps ELSE <<>>)]
           st == manager_status(owned, procs, log_lines, healthy_after, inspect_ok)
           w == try_wait(procs, cmd.child)
           startup_failure ==
               IF ~inspect_ok
               THEN Message("Failed to inspect backend process during startup", 0)
               ELSE IF w.exited
               THEN Message("Backend exited during startup", 0)
               ELSE Message("Backend did not become healthy", candidate_port)
           detailed == compose_error_with_log_tail(log_lines, startup_failure)
       IN  IF healthy
           THEN /\ backend' = st.backend
                /\ procs' = st.procs
                /\ StartReturns([cmd EXCEPT !.child = 0],
                                IF st.ok THEN <<"ok", st.status>>
                                ELSE <<"err", Message("Failed to check backend process status", 0)>>)
           ELSE /\ backend' = [backend EXCEPT !.last_error = Some(detailed)]
                /\ procs' = kill_and_wait(IF inspect_ok THEN w.procs ELSE procs, cmd.child)
                /\ StartContinues([cmd EXCEPT !.child = 0, !.startup_error = Some(detailed)])
    /\ UNCHANGED <<storage_vars, stream_vars, log_lines>>

\* backend_stop, commands.rs 57-68
BackendStop(max_calls) ==
    /\ MutexFree(max_calls)
    /\ LET halted == stop(backend, procs)
           st == manager_status(halted.backend, halted.procs, halted.log_lines, FALSE, TRUE)
           c == [Locked("backend_stop") EXCEPT !.ran = {"stop"}, !.child = backend.child]
       IN  /\ backend' = st.backend
           /\ procs' = st.procs
           /\ log_lines' = halted.log_lines
           /\ cmd' = Returned(c, <<"ok", st.status>>)
           /\ broadcasts' = Append(broadcasts, Broadcast("backend-status", st.status))
    /\ UNCHANGED <<storage_vars, stream_vars>>

\* backend_status, commands.rs 70-88
BackendStatus(healthy, inspect_ok, max_calls) ==
    /\ MutexFree(max_calls)
    /\ LET st == manager_status(backend, procs, log_lines, healthy, inspect_ok)
           c == [Locked("backend_status") EXCEPT !.exited = st.exited]
           message == IF st.status.last_error # None THEN st.status.last_error[1]
                      ELSE Message("Local backend process exited unexpectedly.", 0)
       IN  /\ backend' = st.backend
           /\ IF st.ok /\ st.exited
              THEN /\ procs' = [st.procs EXCEPT ![backend.child].announced = @ + 1]
                   /\ broadcasts' = Append(broadcasts, Broadcast("backend-exited", message))
              ELSE /\ procs' = st.procs
                   /\ UNCHANGED broadcasts
           /\ cmd' = Returned(c, IF st.ok THEN <<"ok", st.status>>
                                 ELSE <<"err", Message("Failed to check backend process status", 0)>>)
    /\ UNCHANGED <<storage_vars, stream_vars, log_lines>>

\* backend_list_apps up to its own /list-apps request, commands.rs 90-113
BackendListAppsCall(healthy, inspect_ok, again, max_calls) ==
    /\ MutexFree(max_calls)
    /\ LET st == manager_status(backend, procs, log_lines, healthy, inspect_ok)
           c == Locked("backend_list_apps")
       IN  IF ~st.ok
           THEN /\ cmd' = Returned(c, <<"err", Message("Failed to check backend process status", 0)>>)
                /\ UNCHANGED <<backend, procs, log_lines, broadcasts>>
           ELSE IF st.status.running /\ st.status.health
           THEN /\ cmd' = [c EXCEPT !.pc = "list"]
                /\ backend' = st.backend
                /\ procs' = st.procs
                /\ UNCHANGED <<log_lines, broadcasts>>
           ELSE StartBegins(c, st.backend, st.procs,
                            [host |-> Some(st.status.host), port |-> Some(st.status.port),
                             force_restart |-> TRUE],
                            again, inspect_ok)
    /\ UNCHANGED <<storage_vars, stream_vars>>

\* the rest of backend_list_apps, commands.rs 115-122
ListAppsAnswer(answer) ==
    /\ cmd.pc = "list"
    /\ IF answer.ok
       THEN /\ backend' = [backend EXCEPT !.app_name =
                              IF @ = None THEN choose_default_app(answer.apps) ELSE @]
            /\ cmd' = Returned(cmd, <<"ok", answer.apps>>)
       ELSE /\ cmd' = Returned(cmd, <<"err", Message("Failed to call /list-apps", 0)>>)
            /\ UNCHANGED backend
    /\ UNCHANGED <<storage_vars, stream_vars, log_lines, procs, broadcasts>>

\* the supervisor block of stream_run, commands.rs 201-232
StreamRunSupervisor(healthy, inspect_ok, again, max_calls) ==
    /\ MutexFree(max_calls)
    /\ LET st == manager_status(backend, procs, log_lines, healthy, inspect_ok)
           c == Locked("stream_run")
       IN  IF ~st.ok
           THEN /\ cmd' = Returned(c, <<"err", Message("Failed to check backend process status", 0)>>)
                /\ UNCHANGED <<backend, procs, log_lines, broadcasts>>
           ELSE IF ~st.status.running
           THEN /\ cmd' = Returned(c, <<"err", Message("Backend is not running", 0)>>)
                /\ backend' = st.backend
                /\ procs' = st.procs
                /\ UNCHANGED <<log_lines, broadcasts>>
           ELSE IF st.status.health
           THEN /\ cmd' = Returned(c, <<"ok", st.status>>)
                /\ backend' = st.backend
                /\ procs' = st.procs
                /\ UNCHANGED <<log_lines, broadcasts>>
           ELSE StartBegins(c, st.backend, st.procs,
                            [host |-> Some(st.status.host), port |-> Some(st.status.port),
                             force_restart |-> TRUE],
                            again, inspect_ok)
    /\ UNCHANGED <<storage_vars, stream_vars>>

\* a child ends by itself
ChildExits(pid) ==
    /\ procs[pid].state = "alive"
    /\ procs' = [procs EXCEPT ![pid].state = "exited",
                              ![pid].unexpected = (backend.child = pid)]
    /\ UNCHANGED <<storage_vars, stream_vars, backend, log_lines, cmd, broadcasts>>

\* A reader task of child pid pushes the next line of its stream, lines
\* 385-397.  A line is its stream and its number since the ring was cleared;
\* the lines of stderr are among the first max_stderr of them.
ReaderPush(pid, stream, max_lines, max_stderr) ==
    /\ procs[pid].state # "none"
    /\ LET n == IF log_lines = <<>> THEN 1 ELSE log_lines[Len(log_lines)][2] + 1
       IN  /\ n <= max_lines
           /\ stream = "stderr" => n <= max_stderr
           /\ log_lines' = push_log_line(log_lines, <<stream, n>>)
    /\ UNCHANGED <<storage_vars, stream_vars, backend, procs, cmd, broadcasts>>

\* The supervisor under every command that locks it, with a child that may
\* end at any time and readers that push at most MaxLines lines.  Every port
\* is bindable and the launcher either spawns or is missing, so that a start
\* succeeds at once, after one failed attempt, or fails.
BackendNext ==
    \/ \E force_restart \in BOOLEAN, healthy \in BOOLEAN :
           BackendStartCall([host |-> None, port |-> None, force_restart |-> force_restart],
                            healthy, TRUE, MaxCalls)
    \/ \E spawned \in {"ok", "not_found"} : StartTry(TRUE, spawned, FALSE)
    \/ \E healthy \in BOOLEAN, answer \in ListAnswers, healthy_after \in BOOLEAN :
           StartHealth(healthy, answer, healthy_after, TRUE)
    \/ BackendStop(MaxCalls)
    \/ \E healthy \in BOOLEAN : BackendStatus(healthy, TRUE, MaxCalls)
    \/ \E healthy \in BOOLEAN, again \in BOOLEAN :
           BackendListAppsCall(healthy, TRUE, again, MaxCalls)
    \/ \E answer \in ListAnswers : ListAppsAnswer(answer)
    \/ \E healthy \in BOOLEAN, again \in BOOLEAN :
           StreamRunSupervisor(healthy, TRUE, again, MaxCalls)
    \/ \E pid \in Pids : ChildExits(pid)
    \/ \E pid \in Pids, stream \in {"stdout", "stderr"} :
           ReaderPush(pid, stream, MaxLines, MaxLines)

BackendSpec == Init /\ [][BackendNext]_vars

\* backend_start alone, at most MaxStarts times, under every outcome of the
\* port probe, of the spawn, of the health polls and of try_wait, from the
\* default port and from the last port of the u16 range.
StartNext ==
    \/ \E config \in BackendConfigs, healthy \in BOOLEAN, inspect_ok \in BOOLEAN :
           BackendStartCall(config, healthy, inspect_ok, MaxStarts)
    \/ \E available \in BOOLEAN, spawned \in SpawnResults, panics \in BOOLEAN :
           StartTry(available, spawned, panics)
    \/ \E healthy \in BOOLEAN, answer \in ListAnswers, healthy_after \in BOOLEAN,
          inspect_ok \in BOOLEAN : StartHealth(healthy, answer, healthy_after, inspect_ok)
    \/ \E pid \in Pids : ChildExits(pid)
    \/ \E pid \in Pids, stream \in {"stdout", "stderr"} :
           ReaderPush(pid, stream, MaxLines, MaxLines)

StartSpec == Init /\ [][StartNext]_vars

\* ------------------------------------------------------------------ properties

\* the kinds of the events task t has emitted
HasKind(evs, kind) == \E i \in 1..Len(evs) : evs[i].kind = kind

\* the task has returned and its closure has written the phase
Finished(t) == task[t].pc \in {"remove_token", "done"}

\* the closure of task t writes the phase in this step
HookStep(t) == task[t].pc = "hook" /\ task'[t].pc = "remove_token"

\* spec section 3, "Allowed (phase, run_mode) pairs"
AllowedMatrix ==
    { <<"idea_input", "idea">>,
      <<"awaiting_approval", "edit_plan">>,
      <<"awaiting_approval", "approve">> }

\* spec section 3, "Phase transition after a run"
TransitionTable(run_mode, success) ==
    CASE ~success -> <<"failed", TRUE>>
      [] success /\ run_mode = "idea" -> <<"awaiting_approval", FALSE>>
      [] success /\ run_mode = "edit_plan" -> <<"awaiting_approval", FALSE>>
      [] success /\ run_mode = "approve" -> <<"completed", TRUE>>

\* C1: when a streaming task ends, its closure sets the session row (when the
\* row still exists) to the table's phase for (run mode, outcome = Completed),
\* and only after stream_done was emitted for the request: by the task itself
\* when it returned an outcome, by the closure when the task returned an error.
C1_PhaseSetAfterDone ==
    [][\A t \in Runs :
          HookStep(t) =>
              LET id == run[t].session_id
                  want == TransitionTable(run[t].run_mode, task[t].outcome = "Completed")
              IN /\ sessions[id].exists => sessions'[id] = Row(want[1], want[2])
                 /\ ~sessions[id].exists => sessions' = sessions
                 /\ task[t].outcome # "Err" => HasKind(events[t], "stream_done")
                 /\ HasKind(events'[t], "stream_done")]_vars

C1_Witness ==
    \E t \in Runs :
        /\ Finished(t)
        /\ run[t].run_mode = "approve"
        /\ task[t].outcome = "Completed"
        /\ sessions[run[t].session_id] = Row("completed", TRUE)
        /\ HasKind(events[t], "stream_done")

\* C2: an approve run sets the session to (running, read_only) before its task
\* is spawned: a task of an approve run exists, and so emits events and makes
\* backend requests, only once the preset has been written.
C2_PresetBeforeSpawn ==
    /\ [](\A t \in Runs :
            run[t].run_mode = "approve" /\ ~run[t].preset =>
                task[t].pc = "none" /\ events[t] = <<>>)
    /\ [][\A c \in Runs :
            run[c].pc = "preset" /\ run'[c].pc # "preset"
            /\ run[c].run_mode = "approve" /\ sessions[run[c].session_id].exists =>
                /\ sessions'[run[c].session_id] = Row("running", TRUE)
                /\ run'[c].preset
                /\ task'[c].pc = "none"]_vars

C2_Witness ==
    \E t \in Runs :
        /\ run[t].run_mode = "approve"
        /\ run[t].preset
        /\ HasKind(events[t], "stream_open")
        /\ sessions[run[t].session_id] = Row("running", TRUE)

\* C3: validate_run_mode succeeds iff the session exists, is not read-only and
\* (phase, mode) is in the allowed matrix; it leaves the store as it is; and a
\* task is spawned only by a stream_run whose validation succeeded.
C3_ValidateRunMode ==
    /\ [][\A c \in Runs :
            run[c].pc = "validate" /\ run'[c].pc # "validate" /\ ~run[c].text_empty =>
                LET row == sessions[run[c].session_id]
                IN /\ run'[c].validated <=>
                          /\ row.exists
                          /\ ~row.read_only
                          /\ <<row.phase, run[c].run_mode>> \in AllowedMatrix
                   /\ run'[c].validated <=> run'[c].pc # "failed"
                   /\ sessions' = sessions]_vars
    /\ [](\A t \in Runs : task[t].pc # "none" => run[t].validated)

C3_Witness ==
    \E t \in Runs :
        /\ run[t].validated
        /\ run[t].run_mode = "edit_plan"
        /\ task[t].pc = "ensure"
        /\ sessions[run[t].session_id] = Row("awaiting_approval", FALSE)

\* C4: over the 5 phases and 3 run modes, is_run_mode_allowed is true exactly
\* for the pairs of the allowed matrix, and stream_run's validation of a
\* writable session follows it.
C4_RunModeMatrix ==
    /\ \A phase \in SessionPhase, run_mode \in RunMode :
           is_run_mode_allowed(phase, run_mode) <=> <<phase, run_mode>> \in AllowedMatrix
    /\ \A c \in Runs :
           LET row == sessions[run[c].session_id]
           IN run[c].pc = "validate" /\ row.exists /\ ~row.read_only =>
                  (validate_run_mode(sessions, run[c].session_id, run[c].run_mode)
                       <=> <<row.phase, run[c].run_mode>> \in AllowedMatrix)

C4_Witness ==
    \E c \in Runs :
        /\ run[c].pc = "validate"
        /\ run[c].run_mode = "approve"
        /\ sessions[run[c].session_id] = Row("awaiting_approval", FALSE)
        /\ validate_run_mode(sessions, run[c].session_id, run[c].run_mode)

\* C5: over the 3 run modes and both success values, phase_after_run is the
\* transition table, and the phase a finished task wrote is the table's entry
\* for its run mode and outcome.
C5_PhaseAfterRun ==
    /\ \A run_mode \in RunMode, success \in BOOLEAN :
           phase_after_run(run_mode, success) = TransitionTable(run_mode, success)
    /\ \A t \in Runs :
           Finished(t) =>
               task[t].final =
                   TransitionTable(run[t].run_mode, task[t].outcome = "Completed")

C5_Witness ==
    \E t \in Runs :
        /\ Finished(t)
        /\ run[t].run_mode = "idea"
        /\ task[t].outcome = "Completed"
        /\ task[t].final = <<"awaiting_approval", FALSE>>

\* C6: in every reachable state of the store, a session whose phase is
\* completed or failed is read-only.
C6_TerminalPhaseReadOnly ==
    \A id \in SessionIds :
        sessions[id].exists /\ sessions[id].phase \in {"completed", "failed"} =>
            sessions[id].read_only

\* C7: on the channel of a request on which an event was emitted, the first
\* event is stream_open and, once the task has ended, the last is stream_done.
C7_OpenFirstDoneLast ==
    \A t \in Runs :
        events[t] # <<>> =>
            /\ events[t][1].kind = "stream_open"
            /\ Finished(t) => events[t][Len(events[t])].kind = "stream_done"

\* a stream_error of task t that no stream_done follows yet
PendingError(t) ==
    \E i \in 1..Len(events[t]) :
        /\ events[t][i].kind = "stream_error"
        /\ \A j \in (i + 1)..Len(events[t]) : events[t][j].kind # "stream_done"

\* C8: whenever a stream_error is emitted for a request, a stream_done for the
\* same request is emitted afterwards: a stream_error that no stream_done
\* follows yet exists only while the task is in the SSE read loop, every way
\* out of the loop emits the stream_done, and no task ends with a stream_error
\* that no stream_done follows.
C8_ErrorThenDone ==
    /\ [](\A t \in Runs :
            /\ PendingError(t) => task[t].pc = "sse_read"
            /\ Finished(t) => ~PendingError(t))
    /\ [][\A t \in Runs :
            task[t].pc = "sse_read" /\ task'[t].pc # "sse_read" =>
                ~PendingError(t)']_vars

C8_Witness ==
    \E t \in Runs : PendingError(t) /\ task[t].pc = "sse_read"

\* "Run cancelled." directly followed by stream_done
CancelReported(evs) ==
    \E i \in 1..(Len(evs) - 1) :
        evs[i] = RunCancelled /\ evs[i + 1].kind = "stream_done"

C10_CancelAnywhere ==
    \A t \in Runs :
        task[t].cancel_pc \in {"replay", "sse_request", "sse_read", "fallback"} =>
            /\ task[t].after_cancel <= 1
            /\ Finished(t) => CancelReported(events[t])

\* the token of task t was cancelled while the task was running
CancelledDuringTask(t) ==
    task[t].cancel_pc \in {"ensure", "replay", "sse_request", "sse_read", "fallback"}

\* the events task t emits in this step
Emitted(t) == SubSeq(events'[t], Len(events[t]) + 1, Len(events'[t]))

\* C11: when the read loop observes the cancellation, no event derived from a
\* frame is emitted any more: a frame that no blank line has terminated yields
\* no stream_message and no other event; only "Run cancelled.", stream_done
\* and the closing progress follow.
C11_UnterminatedFrameDropped ==
    [][\A t \in Runs :
          task[t].pc = "sse_read" /\ task'[t].cancel_seen =>
              \A i \in 1..Len(Emitted(t)) :
                  \/ Emitted(t)[i] = RunCancelled
                  \/ Emitted(t)[i].kind \in {"stream_done", "stream_progress"}]_vars

\* C12: a task that has ended reported Completed iff its token was not
\* cancelled while it ran and it emitted no stream_error; otherwise it
\* reported Failed or an error.
C12_CompletedIff ==
    \A t \in Runs :
        Finished(t) =>
            /\ task[t].outcome \in {"Completed", "Failed", "Err"}
            /\ task[t].outcome = "Completed" <=>
                   /\ ~CancelledDuringTask(t)
                   /\ ~HasKind(events[t], "stream_error")

\* C13: stream_cancel always acks ok; a token stored under the request id is
\* cancelled and removed from the map; with none stored the map stays as it
\* is and the ack says "No active stream for request".  A step of the command
\* that cancels a token is such a call.
C13_StreamCancelAck ==
    /\ [](\A rid \in RequestIds :
            LET r == stream_cancel(stream_tokens, rid)
            IN /\ r.ok
               /\ stream_tokens[rid] # 0 =>
                      /\ r.cancel = {stream_tokens[rid]}
                      /\ r.map[rid] = 0
                      /\ \A other \in RequestIds \ {rid} :
                             r.map[other] = stream_tokens[other]
               /\ stream_tokens[rid] = 0 =>
                      /\ r.cancel = {}
                      /\ r.map = stream_tokens
                      /\ r.message = "No active stream for request")
    /\ [][cancelled' # cancelled /\ run' = run =>
            \E rid \in RequestIds :
                /\ stream_tokens[rid] # 0
                /\ cancelled' = cancelled \cup {stream_tokens[rid]}
                /\ stream_tokens' = [stream_tokens EXCEPT ![rid] = 0]]_vars

C13_Witness ==
    \E t \in Runs :
        /\ t \in cancelled
        /\ InFlight(task[t].pc)
        /\ stream_tokens[run[t].request_id] = 0

\* C14: when stream_run stores its token under a request id that already has
\* one, the token it replaces is cancelled, so the task holding it sees the
\* cancellation, and the map holds the new token under that key and nothing
\* else changes; an insertion that replaces nothing cancels nothing; no token
\* in the map is a cancelled one.
C14_InsertReplaces ==
    /\ [][\A c \in Runs :
            run[c].pc = "token" /\ run'[c].pc # "token" =>
                LET rid == run[c].request_id
                    existing == stream_tokens[rid]
                IN /\ stream_tokens' = [stream_tokens EXCEPT ![rid] = c]
                   /\ existing # 0 => cancelled' = cancelled \cup {existing}
                   /\ existing = 0 => cancelled' = cancelled]_vars
    /\ [](\A rid \in RequestIds :
            stream_tokens[rid] # 0 => stream_tokens[rid] \notin cancelled)
    /\ [](\A t \in Runs : task[t].cancel_seen => t \in cancelled)

C14_Witness ==
    \E t \in Runs, c \in Runs :
        /\ t # c
        /\ run[c].request_id = run[t].request_id
        /\ stream_tokens[run[c].request_id] = c
        /\ t \in cancelled
        /\ task[t].cancel_seen

\* C15: the fallback POST /run is made iff /run_sse answered 404, 405 or 501;
\* on any other non-2xx answer the task emits stream_error(retryable) and
\* stream_done without usage, reports Failed and makes no fallback request.
C15_FallbackIffUnsupported ==
    /\ [][\A t \in Runs :
            task[t].pc = "sse_request" /\ task'[t].pc # "sse_request" =>
                LET status == task'[t].sse_status
                IN /\ task'[t].pc = "fallback" <=> status \in {404, 405, 501}
                   /\ status \notin {0, 404, 405, 501} /\ status \notin 200..299 =>
                          /\ task'[t].pc = "hook"
                          /\ task'[t].outcome = "Failed"
                          /\ Len(Emitted(t)) = 2
                          /\ Emitted(t)[1].kind = "stream_error"
                          /\ Emitted(t)[1].retryable
                          /\ Emitted(t)[2] = StreamDone(Absent)]_vars
    /\ [][\A t \in Runs :
            task'[t].pc = "fallback" => task[t].pc \in {"sse_request", "fallback"}]_vars

C15_Witness ==
    \E t \in Runs :
        /\ task[t].pc = "hook"
        /\ task[t].sse_status = 404
        /\ task[t].outcome = "Completed"
        /\ HasKind(events[t], "stream_message")

\* C16: once a frame whose trimmed payload is [DONE] has been consumed, no
\* later line or frame is processed and no further bytes are awaited: the
\* task is not in the read loop with a consumed [DONE], and no frame was
\* processed after one.
C16_DoneTerminates ==
    \A t \in Runs :
        /\ task[t].pc = "sse_read" => ~task[t].sse.done_seen
        /\ ~task[t].late

IsProgress(e) == e.kind = "stream_progress"

\* the stream_progress events of a channel, in order
Progress(evs) == SelectSeq(evs, IsProgress)

\* C17: the percents of the stream_progress events of a run that ended
\* Completed never decrease.
C17_ProgressMonotone ==
    \A t \in Runs :
        task[t].outcome = "Completed" =>
            LET p == Progress(events[t])
            IN \A i \in 1..(Len(p) - 1) : p[i].percent <= p[i + 1].percent

\* C18: no two consecutive stream_progress events of a request carry the same
\* (percent, stage), and (100, "Complete") is emitted at most once.
C18_ProgressOnlyOnChange ==
    \A t \in Runs :
        LET p == Progress(events[t])
        IN /\ \A i \in 1..(Len(p) - 1) :
                  p[i].percent = p[i + 1].percent => p[i].stage # p[i + 1].stage
           /\ Cardinality({i \in 1..Len(p) : p[i].percent = 100}) <= 1
           /\ \A i \in 1..Len(p) :
                  p[i].percent = 100 <=> p[i].stage = <<"Complete">>

\* an event was processed whose progress snapshot equals the one emitted
\* before it, so that nothing was emitted for it, and the run has ended
C18_Witness ==
    \E t \in Runs :
        /\ Finished(t)
        /\ \E i \in 1..(Len(events[t]) - 1) :
               /\ events[t][i].kind = "stream_message"
               /\ events[t][i + 1].kind = "stream_event_raw"
        /\ \E i \in 1..Len(events[t]) :
               IsProgress(events[t][i]) /\ events[t][i].percent = 100

\* the invocation ids of the upstream events handed to the frontend
SeenInvocationIds(evs) ==
    { extract_invocation_id(evs[i].event) :
          i \in {j \in 1..Len(evs) : evs[j].kind = "stream_event_raw"} } \ {Absent}

\* C19: the number of stream_meta events of a request equals the number of
\* distinct non-empty invocation ids of its upstream events, and the
\* stream_meta of an id precedes the first stream_event_raw that carries it.
C19_MetaOncePerId ==
    \A t \in Runs :
        LET evs == events[t]
        IN /\ Cardinality({i \in 1..Len(evs) : evs[i].kind = "stream_meta"})
                  = Cardinality(SeenInvocationIds(evs))
           /\ \A i \in 1..Len(evs) :
                  evs[i].kind = "stream_event_raw"
                  /\ extract_invocation_id(evs[i].event) # Absent =>
                      \E j \in 1..(i - 1) :
                          /\ evs[j].kind = "stream_meta"
                          /\ evs[j].invocationId = extract_invocation_id(evs[i].event)

\* the text of the parts of an event, concatenated
RECURSIVE PartsText(_)
PartsText(parts) ==
    IF parts = <<>> THEN <<>>
    ELSE (IF Head(parts).text = Absent THEN <<>> ELSE Head(parts).text)
         \o PartsText(Tail(parts))

\* the event speaks for the model: content.role is model or assistant, or
\* there is no role and the author is model or assistant
IsModelEvent(e) ==
    /\ e.has_content
    /\ \/ e.role \in {<<"model">>, <<"assistant">>}
       \/ e.role = Absent /\ e.author \in {<<"model">>, <<"assistant">>}

\* the text of the last stream_message among the first n events, <<>> if none
RECURSIVE LastMessageText(_, _)
LastMessageText(evs, n) ==
    IF n = 0 THEN <<>>
    ELSE IF evs[n].kind = "stream_message" THEN evs[n].text
    ELSE LastMessageText(evs, n - 1)

\* the index of the first stream_event_raw after position i, Len + 1 if none
RECURSIVE NextRaw(_, _)
NextRaw(evs, i) ==
    IF i >= Len(evs) THEN Len(evs) + 1
    ELSE IF evs[i + 1].kind = "stream_event_raw" THEN i + 1
    ELSE NextRaw(evs, i + 1)

\* C20: a stream_message is emitted for an upstream event iff the event
\* carries model text whose trimmed concatenation is non-empty and differs
\* from the last emitted model text, and it carries that trimmed text; a
\* stream_message belongs to an upstream event; no two consecutive
\* stream_message events have equal text.
C20_MessageIffModelTextChanged ==
    \A t \in Runs :
        LET evs == events[t]
            raws == {i \in 1..Len(evs) : evs[i].kind = "stream_event_raw"}
            msgs == {i \in 1..Len(evs) : evs[i].kind = "stream_message"}
        IN /\ \A i \in raws :
                  LET text == Trim(PartsText(evs[i].event.parts))
                      own == {j \in msgs : i < j /\ j < NextRaw(evs, i)}
                      due == /\ IsModelEvent(evs[i].event)
                             /\ text # <<>>
                             /\ text # LastMessageText(evs, i)
                  IN /\ due => Cardinality(own) = 1 /\ \A j \in own : evs[j].text = text
                     /\ ~due => own = {}
           /\ \A j \in msgs :
                  /\ \E i \in raws : i < j
                  /\ evs[j].text # LastMessageText(evs, j - 1)

\* the same model text arrived twice, with other text in between or not, and
\* text of another role arrived: one message per change
C20_Witness ==
    \E t \in Runs :
        LET evs == events[t]
        IN /\ Finished(t)
           /\ \E i \in 1..Len(evs) :
                  /\ evs[i].kind = "stream_event_raw"
                  /\ evs[i].event = EvAuthor
                  /\ LastMessageText(evs, i) = <<"Hel">>
                  /\ NextRaw(evs, i) <= Len(evs)
                  /\ evs[NextRaw(evs, i)].event = EvUser
           /\ Cardinality({j \in 1..Len(evs) : evs[j].kind = "stream_message"}) = 1

\* The log ring filled beyond its capacity: backend_start spawns a child that
\* becomes healthy, or replaces it (which clears the ring); the readers of the
\* child push until it has been waited for; the child may end, and
\* backend_status then composes last_error with the tail of the ring.
LogNext ==
    \/ BackendStartCall([host |-> None, port |-> None, force_restart |-> TRUE],
                        TRUE, TRUE, MaxLogCalls)
    \/ StartTry(TRUE, "ok", FALSE)
    \/ StartHealth(TRUE, [ok |-> FALSE, apps |-> <<>>], TRUE, TRUE)
    \/ BackendStatus(TRUE, TRUE, MaxLogCalls)
    \/ \E pid \in Pids : ChildExits(pid)
    \/ \E pid \in Unreaped(procs), stream \in {"stdout", "stderr"} :
           ReaderPush(pid, stream, MAX_LOG_LINES + MaxOverflow, MaxStderrLines)

LogSpec == Init /\ [][LogNext]_vars

\* the app names of the answers of /list-apps in AppsSpec
AppNames == {"product_validator_search", "reports", "tests", "desktop", "demo_agent"}

\* a failure, and every list of at most MaxApps app names
AppAnswers ==
    { [ok |-> FALSE, apps |-> <<>>] } \cup
    { [ok |-> TRUE, apps |-> apps] :
          apps \in UNION { [1..n -> AppNames] : n \in 0..MaxApps } }

\* The default app: backend_start on a host where the child becomes healthy
\* at once, and backend_list_apps, each with every answer of /list-apps.
AppsNext ==
    \/ \E force_restart \in BOOLEAN :
           BackendStartCall([host |-> None, port |-> None, force_restart |-> force_restart],
                            TRUE, TRUE, MaxCalls)
    \/ StartTry(TRUE, "ok", FALSE)
    \/ \E answer \in AppAnswers : StartHealth(TRUE, answer, TRUE, TRUE)
    \/ BackendListAppsCall(TRUE, TRUE, TRUE, MaxCalls)
    \/ \E answer \in AppAnswers : ListAppsAnswer(answer)

AppsSpec == Init /\ [][AppsNext]_vars

\* ------------------------------------------------------------------ properties of the supervisor

\* C21: the supervisor owns zero or one child and at most one process spawned
\* by it runs: every process that has not been killed and waited for is the
\* owned child or the candidate of the startup attempt in progress, and there
\* is at most one such process, so that a prior child and the child of a
\* failed attempt are gone before the next spawn and when start returns.
C21_SingleChild ==
    /\ backend.child \in {0} \cup Pids
    /\ Cardinality(Alive(procs)) <= 1
    /\ Cardinality(Unreaped(procs)) <= 1
    /\ \A pid \in Unreaped(procs) :
           \/ pid = backend.child
           \/ cmd.pc = "health" /\ pid = cmd.child
    /\ cmd.pc \in {"returned", "panicked"} => Unreaped(procs) \subseteq {backend.child}

\* a second attempt of one start runs after the child of the first was killed
C21_Witness ==
    /\ cmd.pc = "health"
    /\ cmd.offset = 1
    /\ procs[1].state = "reaped"
    /\ procs[2].state = "alive"

\* this step is the first of a command that takes the supervisor mutex
CallStep(name) == cmd'.name = name /\ cmd'.calls = cmd.calls + 1

\* C22: when start finds the child running and healthy and force_restart is
\* false, it returns that status at once, no process is killed or spawned, and
\* the child handle, app_name, last_error and the log ring are as before.
C22_HealthyStartIsNoop ==
    [][ ( /\ cmd'.calls = cmd.calls + 1
          /\ "start" \in cmd'.ran
          /\ cmd'.current # None
          /\ cmd'.current[1].running
          /\ cmd'.current[1].health
          /\ ~cmd'.force_restart )
        => ( /\ cmd'.pc = "returned"
             /\ cmd'.result = <<"ok", cmd'.current[1]>>
             /\ procs' = procs
             /\ backend'.child = backend.child
             /\ backend'.app_name = backend.app_name
             /\ backend'.last_error = backend.last_error
             /\ log_lines' = log_lines ) ]_vars

\* backend_start has returned the status of a healthy child it left alone
C22_Witness ==
    /\ cmd.name = "backend_start"
    /\ cmd.pc = "returned"
    /\ ~cmd.force_restart
    /\ cmd.current # None
    /\ cmd.current[1].running /\ cmd.current[1].health
    /\ backend.child # 0
    /\ backend.app_name # None
    /\ procs[backend.child].state = "alive"

\* the errors start returns when no candidate port became healthy
StartupErrors ==
    { "Port is already in use", "Failed to spawn backend process", "uv not found",
      "Failed to inspect backend process during startup", "Backend exited during startup",
      "Backend did not become healthy", "Failed to start ADK web backend after retries" }

\* C23: the candidate ports of a start are start_port, start_port + 1, ... in
\* this order, one per pass of the loop, and a child is spawned on the
\* candidate of its pass; when start returns the status of a running child,
\* its port is the port that child was spawned on; when it returns a startup
\* error, the supervisor owns no child and none of its processes runs.
C23_PortsInOrder ==
    /\ cmd.pc \in {"try", "health"} =>
           /\ Len(cmd.tried) = cmd.offset + (IF cmd.pc = "health" THEN 1 ELSE 0)
           /\ \A i \in 1..Len(cmd.tried) : cmd.tried[i] = cmd.start_port + (i - 1)
    /\ cmd.pc = "health" => procs[cmd.child].port = cmd.tried[Len(cmd.tried)]
    /\ (cmd.pc = "returned" /\ cmd.name = "backend_start") =>
           IF cmd.result[1] = "ok"
           THEN cmd.result[2].running =>
                    /\ backend.child # 0
                    /\ cmd.result[2].port = procs[backend.child].port
           ELSE cmd.result[2].text \in StartupErrors =>
                    backend.child = 0 /\ Alive(procs) = {}

\* the names of the events broadcast since the command took the mutex
EmittedSince(mark) ==
    [i \in 1..(Len(broadcasts) - mark) |-> broadcasts[mark + i].event]

\* C24: status() returns exited = true at most once for a child that ended: the
\* call that does has cleared the child handle and recorded last_error, the
\* process is then waited for and no longer owned, and backend-exited is
\* broadcast at most once for it, by a backend_status call that saw
\* exited = true; a call that saw exited = false broadcasts nothing.
C24_ExitReportedOnce ==
    /\ \A pid \in Pids :
           /\ procs[pid].reported <= 1
           /\ procs[pid].announced <= procs[pid].reported
           /\ procs[pid].reported = 1 =>
                  procs[pid].state = "reaped" /\ backend.child # pid
    /\ (cmd.name = "backend_status" /\ cmd.pc = "returned") =>
           IF cmd.exited
           THEN /\ backend.child = 0
                /\ backend.last_error # None
                /\ EmittedSince(cmd.mark) = <<"backend-exited">>
           ELSE EmittedSince(cmd.mark) = <<>>

\* a backend_status call after the one that reported the exit reports none
C24_Witness ==
    /\ cmd.name = "backend_status"
    /\ cmd.pc = "returned"
    /\ ~cmd.exited
    /\ \E pid \in Pids :
           /\ procs[pid].unexpected
           /\ procs[pid].reported = 1
           /\ procs[pid].announced = 1

\* C25: a backend_status call that returns a status leaves every child that
\* ended by itself while owned with exactly one backend-exited broadcast,
\* whichever commands ran between the exit and the call.
C25_ExitAnnouncedByNextStatus ==
    [][ (CallStep("backend_status") /\ cmd'.result[1] = "ok")
        => \A pid \in Pids : procs[pid].unexpected => procs'[pid].announced = 1 ]_vars

\* C26: a backend_stop step leaves no child (its status has running and health
\* false), no process that was not waited for, app_name and last_error none
\* and the log ring empty, keeps host and port, and succeeds; without a child
\* it changes no process.
C26_StopClears ==
    [][ CallStep("backend_stop")
        => ( /\ cmd'.pc = "returned"
             /\ cmd'.result[1] = "ok"
             /\ ~cmd'.result[2].running
             /\ ~cmd'.result[2].health
             /\ backend'.child = 0
             /\ backend'.app_name = None
             /\ backend'.last_error = None
             /\ log_lines' = <<>>
             /\ backend'.host = backend.host
             /\ backend'.port = backend.port
             /\ Unreaped(procs') = {}
             /\ backend.child = 0 => procs' = procs ) ]_vars

\* backend_stop has killed the second child of a start, which had recorded
\* the failure of the first
C26_Witness ==
    /\ cmd.name = "backend_stop"
    /\ cmd.pc = "returned"
    /\ cmd.child = 2
    /\ procs[2].state = "reaped"
    /\ backend.port = DEFAULT_PORT + 1

\* C27: a command that has executed start or stop of the supervisor has
\* broadcast one backend-status event by the time it ends.
C27_StatusAfterStartStop ==
    (cmd.pc \in {"returned", "panicked"} /\ cmd.ran # {})
        => Len(SelectSeq(EmittedSince(cmd.mark), LAMBDA e : e = "backend-status")) = 1

\* C29: no command panics and no candidate port is the result of a u16
\* addition that overflowed; a command that has ended holds a status or an
\* error.
C29_NoPortOverflow ==
    /\ cmd.pc # "panicked"
    /\ ~cmd.wrapped
    /\ cmd.pc = "returned" => cmd.result[1] \in {"ok", "err"}

\* the last `limit` lines of the ring
LastLines(logs, limit) ==
    SubSeq(logs, Len(logs) - Min(limit, Len(logs)) + 1, Len(logs))

\* C28: the ring never holds more than MAX_LOG_LINES lines; it holds the lines
\* pushed since it was cleared, in the order they were pushed, less the oldest
\* ones, of which no more are missing than the capacity requires; the tail of
\* a composed error is the last min(LOG_TAIL_LINES, length) lines, oldest
\* first (the ring of LogSpec does not change between the composition and
\* the next clear).
C28_LogRing ==
    /\ Len(log_lines) <= MAX_LOG_LINES
    /\ \A i \in 1..(Len(log_lines) - 1) : log_lines[i + 1][2] = log_lines[i][2] + 1
    /\ log_lines # <<>> =>
           Len(log_lines) = Min(log_lines[Len(log_lines)][2], MAX_LOG_LINES)
    /\ backend.last_error # None =>
           backend.last_error[1].tail = LastLines(log_lines, LOG_TAIL_LINES)

\* the ring is full, its oldest line has been evicted, it holds a line of
\* stderr among those of stdout, and an error was composed with its tail
C28_Witness ==
    /\ Len(log_lines) = MAX_LOG_LINES
    /\ log_lines[1][2] = 2
    /\ \E i \in 1..Len(log_lines) : log_lines[i][1] = "stderr"
    /\ backend.last_error # None
    /\ Len(backend.last_error[1].tail) = LOG_TAIL_LINES

NotAuxiliary(name) == name \notin {"reports", "tests", "desktop"}

\* the default-app policy of spec section 4.3
DefaultAppPolicy(apps) ==
    IF \E i \in 1..Len(apps) : apps[i] = "product_validator_search"
    THEN Some("product_validator_search")
    ELSE IF SelectSeq(apps, NotAuxiliary) # <<>>
    THEN Some(Head(SelectSeq(apps, NotAuxiliary)))
    ELSE IF apps # <<>> THEN Some(Head(apps)) ELSE None

\* C30: the app backend_list_apps chooses by choose_default_app for the list
\* it returns, when none was chosen before, is product_validator_search if the
\* list holds it anywhere, else the first app that is not reports, tests or
\* desktop, else the first app, and none iff the list is empty.
C30_DefaultApp ==
    [][ ( /\ cmd.pc = "list"
          /\ cmd'.pc = "returned"
          /\ cmd'.result[1] = "ok"
          /\ backend.app_name = None )
        => ( /\ backend'.app_name = DefaultAppPolicy(cmd'.result[2])
             /\ backend'.app_name = None <=> cmd'.result[2] = <<>> ) ]_vars

\* backend_list_apps has chosen product_validator_search from behind an
\* auxiliary app and another app
C30_Witness ==
    /\ cmd.name = "backend_list_apps"
    /\ cmd.pc = "returned"
    /\ cmd.result = <<"ok", <<"reports", "demo_agent", "product_validator_search">> >>
    /\ backend.app_name = Some("product_validator_search")

\* ------------------------------------------------------------------ commands.rs: session store commands

\* time passes between two calls of now_ms()
Tick(max_clock) ==
    /\ clock < max_clock
    /\ clock' = clock + 1
    /\ UNCHANGED <<stream_vars, supervisor_vars, db, append, store_op, keyring, key_op>>

\* session_create: id is the id the input names or, without one, the fresh
\* uuid (an id no row has)
SessionCreateCmd(input, id) ==
    /\ IF input.session_id = None
       THEN db.sessions[id] = None
       ELSE input.session_id = Some(id)
    /\ LET r == store_create_session(db, id, input, clock)
       IN /\ db' = r.db
          /\ store_op' = [name |-> "create_session", input |-> Some(input),
                          result |-> Some(r.row)]
    /\ UNCHANGED <<stream_vars, supervisor_vars, clock, append, keyring, key_op>>

\* session_list
SessionListCmd(input) ==
    /\ \E answer \in list_sessions(db, input.app_name, input.user_id) :
          store_op' = [name |-> "list_sessions", input |-> Some(input),
                       result |-> answer]
    /\ UNCHANGED <<stream_vars, supervisor_vars, db, clock, append, keyring, key_op>>

\* session_delete
SessionDeleteCmd(session_id) ==
    /\ LET r == store_delete_session(db, session_id)
       IN /\ db' = r.db
          /\ store_op' = [name |-> "delete_session", input |-> Some(session_id),
                          result |-> Some(r.deleted)]
    /\ UNCHANGED <<stream_vars, supervisor_vars, clock, append, keyring, key_op>>

\* session_messages_get
SessionMessagesGetCmd(session_id) ==
    /\ store_op' = [name |-> "messages_get", input |-> Some(session_id),
                    result |-> messages_get(db, session_id)]
    /\ UNCHANGED <<stream_vars, supervisor_vars, db, clock, append, keyring, key_op>>

\* session_phase_set on the full table
SessionPhaseSetCmd(session_id, phase, read_only) ==
    /\ LET r == store_phase_set(db, session_id, phase, read_only, clock)
       IN /\ db' = r[2]
          /\ store_op' = [name |-> "phase_set", input |-> Some(session_id),
                          result |-> Some(r[1])]
    /\ UNCHANGED <<stream_vars, supervisor_vars, clock, append, keyring, key_op>>

\* session_messages_append, first statement (session_store.rs 149-164): the
\* SELECT that looks for the session; without a row the call returns Err
AppendCheck(input, max_messages) ==
    /\ append.pc = "idle"
    /\ Len(db.messages) < max_messages
    /\ IF db.sessions[input.session_id] = None
       THEN /\ store_op' = [name |-> "message_append", input |-> Some(input),
                            result |-> Some([ok |-> FALSE,
                                             error |-> "Cannot append message"])]
            /\ UNCHANGED append
       ELSE /\ append' = [pc |-> "checked", input |-> Some(input), message |-> None]
            /\ UNCHANGED store_op
    /\ UNCHANGED <<stream_vars, supervisor_vars, db, clock, keyring, key_op>>

\* second statement (166-187): the message is built and inserted
AppendInsert ==
    /\ append.pc = "checked"
    /\ LET input == append.input[1]
           message == SessionMessage(input.session_id, input.role, input.text,
                                     input.status,
                                     IF input.created_at_ms = None THEN clock
                                     ELSE input.created_at_ms[1])
           r == insert_message(db, message)
       IN /\ db' = r.db
          /\ IF r.ok
             THEN /\ append' = [append EXCEPT !.pc = "inserted", !.message = Some(message)]
                  /\ UNCHANGED store_op
             ELSE /\ append' = AppendIdle
                  /\ store_op' = [name |-> "message_append", input |-> Some(input),
                                  result |-> Some([ok |-> FALSE,
                                                   error |-> "Failed to append message"])]
    /\ UNCHANGED <<stream_vars, supervisor_vars, clock, keyring, key_op>>

\* third statement (189-201): the title and updated_at_ms of the session
AppendUpdate ==
    /\ append.pc = "inserted"
    /\ LET message == append.message[1]
           title_candidate == infer_title_from_message(message.role, message.text)
       IN /\ db' = touch_session(db, message.session_id, title_candidate, clock)
          /\ store_op' = [name |-> "message_append", input |-> append.input,
                          result |-> Some([ok |-> TRUE, message |-> message])]
    /\ append' = AppendIdle
    /\ UNCHANGED <<stream_vars, supervisor_vars, clock, keyring, key_op>>

\* stream_run line 198: replay_messages on the messages of the session
ReplayCall(session_id, current_text, max_messages) ==
    /\ LET rows == messages_get(db, session_id)
       IN store_op' = [name |-> "replay_messages",
                       input |-> Some([rows |-> rows, current_text |-> current_text,
                                       max_messages |-> max_messages]),
                       result |-> replay_messages(rows, current_text, max_messages)]
    /\ UNCHANGED <<stream_vars, supervisor_vars, db, clock, append, keyring, key_op>>

\* the owners of the sessions: the pairs (app_name, user_id)
StoreOwners == {<<"a1", "u1">>, <<"a1", "u2">>, <<"a2", "u1">>}

SessionCreateInputs(owners, ids) ==
    {[app_name |-> o[1], user_id |-> o[2], session_id |-> sid] :
        o \in owners, sid \in ids}

SessionListInputs == {[app_name |-> o[1], user_id |-> o[2]] : o \in StoreOwners}

\* a message as the frontend appends it
AppendInput(session_id, role, text, status, created_at_ms) ==
    [session_id |-> session_id, role |-> role, text |-> text, status |-> status,
     created_at_ms |-> created_at_ms]

\* the create, delete, append and phase commands on two sessions while time
\* passes
StoreNext ==
    \/ Tick(MaxClock)
    \/ \E input \in SessionCreateInputs({<<"a1", "u1">>, <<"a2", "u1">>},
                                        {None} \cup {Some(id) : id \in StoreIds}),
          id \in StoreIds : SessionCreateCmd(input, id)
    \/ \E id \in StoreIds : SessionDeleteCmd(id)
    \/ SessionPhaseSetCmd("s1", "running", TRUE)
    \/ \E id \in StoreIds :
          AppendCheck(AppendInput(id, <<"user">>, <<"h">>, <<"done">>, None),
                      MaxStoreMessages)
    \/ AppendInsert
    \/ AppendUpdate

StoreSpec == Init /\ [][StoreNext]_vars

\* the create and list commands of three owners, and the appends and phase
\* changes of one session, while time passes
ListNext ==
    \/ Tick(MaxClock)
    \/ \E input \in SessionCreateInputs(StoreOwners, {Some(id) : id \in StoreIds}),
          id \in StoreIds : SessionCreateCmd(input, id)
    \/ \E input \in SessionListInputs : SessionListCmd(input)
    \/ SessionPhaseSetCmd("s1", "running", TRUE)
    \/ AppendCheck(AppendInput("s1", <<"assistant">>, <<"h">>, <<"done">>, None),
                   MaxStoreMessages)
    \/ AppendInsert
    \/ AppendUpdate

ListSpec == Init /\ [][ListNext]_vars

\* ------------------------------------------------------------------ properties of the session store

AnyCreateInputs ==
    SessionCreateInputs(StoreOwners, {None} \cup {Some(id) : id \in StoreIds})

\* C31: create_session is idempotent on the id.  For an id no row has, the
\* call inserts a row with phase idea_input, read_only false, an empty title
\* and created_at_ms = updated_at_ms, and returns it.  For an id that has a
\* row, the tables stay as they are (phase, read_only, title, timestamps and
\* messages included) and the call returns the row that was there.
C31_CreateIdempotent ==
    [][\A input \in AnyCreateInputs, id \in StoreIds :
          SessionCreateCmd(input, id) =>
             IF db.sessions[id] = None
             THEN /\ db'.sessions[id] # None
                  /\ LET row == db'.sessions[id][1]
                     IN /\ row.id = id
                        /\ row.phase = "idea_input"
                        /\ row.read_only = FALSE
                        /\ row.title = <<>>
                        /\ row.created_at_ms = row.updated_at_ms
                        /\ row.app_name = input.app_name
                        /\ row.user_id = input.user_id
                        /\ store_op'.result = Some(row)
                  /\ \A other \in StoreIds \ {id} : db'.sessions[other] = db.sessions[other]
                  /\ db'.messages = db.messages
             ELSE /\ db' = db
                  /\ store_op'.result = db.sessions[id]]_vars

\* a create on an existing id has returned the row of another owner, with a
\* title, a later update and a message, as it was
C31_Witness ==
    /\ store_op.name = "create_session"
    /\ store_op.input[1].session_id # None
    /\ LET id == store_op.input[1].session_id[1]
           row == store_op.result[1]
       IN /\ db.sessions[id] = Some(row)
          /\ row.app_name # store_op.input[1].app_name
          /\ row.title # <<>>
          /\ row.phase = "running"
          /\ row.updated_at_ms > row.created_at_ms
          /\ messages_get(db, id) # <<>>

\* C32: list_sessions(app, user) returns exactly the sessions of that
\* (app, user), each once and as stored, ordered by updated_at_ms descending:
\* a session updated later than another stands before it, so two sessions
\* created one after the other come newest first, and a later message_append
\* or phase_set on the older one moves it to the front.
C32_ListNewestFirst ==
    [][\A input \in SessionListInputs :
          SessionListCmd(input) =>
             LET answer == store_op'.result
                 matching == {id \in StoreIds :
                                 /\ db.sessions[id] # None
                                 /\ db.sessions[id][1].app_name = input.app_name
                                 /\ db.sessions[id][1].user_id = input.user_id}
             IN /\ {answer[i].id : i \in DOMAIN answer} = matching
                /\ Len(answer) = Cardinality(matching)
                /\ \A i \in DOMAIN answer : db.sessions[answer[i].id] = Some(answer[i])
                /\ \A i, j \in DOMAIN answer :
                      i < j => answer[i].updated_at_ms >= answer[j].updated_at_ms
                /\ \A i, j \in DOMAIN answer :
                      answer[i].updated_at_ms > answer[j].updated_at_ms => i < j]_vars

\* a list has returned [s1, s2] where s1 was created before s2 and got a
\* message after s2 was created
C32_Witness ==
    /\ store_op.name = "list_sessions"
    /\ Len(store_op.result) = 2
    /\ store_op.result[1].id = "s1"
    /\ store_op.result[2].id = "s2"
    /\ store_op.result[1].created_at_ms < store_op.result[2].created_at_ms
    /\ store_op.result[1].updated_at_ms > store_op.result[2].updated_at_ms
    /\ messages_get(db, "s1") # <<>>

\* every row of messages names a session that has a row
MessagesHaveSession(d) ==
    \A i \in DOMAIN d.messages : d.sessions[d.messages[i].session_id] # None

AnyAppendInputs ==
    {AppendInput(id, <<"user">>, <<"h">>, <<"done">>, None) : id \in StoreIds}

\* C33: in every reachable state of the store each message references an
\* existing session.  A message_append on a session that has no row (when the
\* call looks for it, or when it inserts) returns an error and stores nothing;
\* after delete_session(id) returned true messages_get(id) is empty; and
\* delete_session on an absent id returns false and changes nothing.
C33_MessagesBoundToSession ==
    [][/\ MessagesHaveSession(db')
       /\ \A input \in AnyAppendInputs :
             AppendCheck(input, MaxStoreMessages) /\ db.sessions[input.session_id] = None
                => /\ store_op'.result[1].ok = FALSE
                   /\ db' = db
                   /\ append' = AppendIdle
       /\ (AppendInsert /\ db.sessions[append.input[1].session_id] = None)
             => /\ store_op'.result[1].ok = FALSE
                /\ db' = db
                /\ append' = AppendIdle
       /\ \A id \in StoreIds :
             SessionDeleteCmd(id) =>
                IF db.sessions[id] # None
                THEN /\ store_op'.result = Some(TRUE)
                     /\ db'.sessions[id] = None
                     /\ messages_get(db', id) = <<>>
                     /\ \A other \in StoreIds \ {id} :
                           /\ db'.sessions[other] = db.sessions[other]
                           /\ messages_get(db', other) = messages_get(db, other)
                ELSE /\ store_op'.result = Some(FALSE)
                     /\ db' = db]_vars

\* delete_session has returned true for a session whose message an append had
\* just inserted, and the message is gone with it
C33_Witness ==
    /\ store_op.name = "delete_session"
    /\ store_op.result = Some(TRUE)
    /\ append.pc = "inserted"
    /\ append.message[1].session_id = store_op.input[1]
    /\ db.sessions[store_op.input[1]] = None
    /\ messages_get(db, store_op.input[1]) = <<>>

\* ------------------------------------------------------------------ titles

\* a text of n code points without whitespace
Chars(n) == [i \in 1..n |-> "x"]

\* the roles a message is appended with
TitleRoles == {<<"user">>, <<" ", "USER">>, <<"assistant">>}

\* the texts a message is appended with: empty, blank, short, with runs of
\* whitespace, and around the limit of a title
TitleTexts ==
    {<<>>, <<" ", "\n">>, <<"h">>, <<" ", "h", " ", "\n", "i", " ">>,
     Chars(TITLE_LIMIT), Chars(TITLE_LIMIT + 1),
     Chars(TITLE_LIMIT - 1) \o <<" ", " ">> \o <<"y">>,
     Chars(TITLE_LIMIT - 2) \o <<" ", " ">> \o <<"y">>,
     Chars(TITLE_LIMIT + TITLE_LIMIT)}

TitleInputs ==
    {AppendInput("s1", role, text, <<"done">>, None) :
        role \in TitleRoles, text \in TitleTexts}

\* one session and the messages appended to it
TitleNext ==
    \/ SessionCreateCmd([app_name |-> "a1", user_id |-> "u1", session_id |-> Some("s1")],
                        "s1")
    \/ \E input \in TitleInputs : AppendCheck(input, MaxMessages)
    \/ AppendInsert
    \/ AppendUpdate

TitleSpec == Init /\ [][TitleNext]_vars

\* the words of a text: its maximal runs of tokens that are not whitespace
RECURSIVE WordsOf(_)
WordsOf(s) ==
    IF s = <<>> THEN <<>>
    ELSE IF Head(s) \in Whitespace THEN WordsOf(Tail(s))
    ELSE LET stops == {i \in DOMAIN s : s[i] \in Whitespace}
             k == IF stops = {} THEN Len(s) + 1
                  ELSE CHOOSE i \in stops : \A j \in stops : i <= j
         IN <<SubSeq(s, 1, k - 1)>> \o WordsOf(SubSeq(s, k, Len(s)))

\* the words joined by single spaces
RECURSIVE SpaceJoined(_)
SpaceJoined(words) ==
    IF words = <<>> THEN <<>>
    ELSE IF Len(words) = 1 THEN words[1]
    ELSE words[1] \o <<" ">> \o SpaceJoined(Tail(words))

\* the title a text gives: its whitespace-normalized form, cut to 56 code
\* points plus "..." when longer
TitleOf(text) ==
    LET normalized == SpaceJoined(WordsOf(text)) IN
    IF Len(normalized) > TITLE_LIMIT
    THEN SubSeq(normalized, 1, TITLE_LIMIT) \o <<".", ".", ".">>
    ELSE normalized

\* a role is user up to case and surrounding whitespace, as the store reads
\* roles
IsUserRole(role) == Lower(Trim(role)) = <<"user">>

\* C34: message_append changes a session's title only when the current title
\* is empty and the message has role user with non-empty trimmed text; then
\* the title is the whitespace-normalized text, truncated to 56 code points
\* plus "..." when longer (at most 59 code points).  Non-user messages never
\* change the title, and once the title is non-empty no later append changes
\* it.
C34_TitleFromFirstUserMessage ==
    [][\A id \in StoreIds :
          (db.sessions[id] # None /\ db'.sessions[id] # None) =>
             LET before == db.sessions[id][1].title
                 after == db'.sessions[id][1].title
             IN /\ after # before =>
                     /\ AppendUpdate
                     /\ append.message[1].session_id = id
                     /\ before = <<>>
                     /\ IsUserRole(append.message[1].role)
                     /\ Trim(append.message[1].text) # <<>>
                /\ (AppendUpdate /\ append.message[1].session_id = id) =>
                     /\ Len(after) <= TITLE_LIMIT + 3
                     /\ after = IF /\ before = <<>>
                                   /\ IsUserRole(append.message[1].role)
                                   /\ Trim(append.message[1].text) # <<>>
                                THEN TitleOf(append.message[1].text)
                                ELSE before]_vars

\* a first user message of more than 56 code points has given a title of 59,
\* and a later user message with another text has left it alone
C34_Witness ==
    /\ db.sessions["s1"] # None
    /\ Len(db.sessions["s1"][1].title) = TITLE_LIMIT + 3
    /\ store_op.name = "message_append"
    /\ store_op.result[1].ok
    /\ IsUserRole(store_op.result[1].message.role)
    /\ store_op.result[1].message.text = <<"h">>
    /\ Len(messages_get(db, "s1")) = 2

\* ------------------------------------------------------------------ replay window

\* the messages a session gets before a replay: done and unfinished ones,
\* user and assistant ones, blank ones, roles and statuses in other case and
\* with whitespace around, and one with a created_at_ms later than now
ReplayInputs ==
    {AppendInput("s1", <<"user">>, <<"hi">>, <<"done">>, None),
     AppendInput("s1", <<" ", "USER">>, <<" ", "HI", "\n">>, <<" ", "DONE">>, None),
     AppendInput("s1", <<"assistant">>, <<"hi">>, <<"done">>, None),
     AppendInput("s1", <<"assistant">>, <<"x">>, <<"done">>, Some(MaxClock)),
     AppendInput("s1", <<"user">>, <<" ">>, <<"done">>, None),
     AppendInput("s1", <<"user">>, <<"x">>, <<"streaming">>, None)}

\* the texts of the message that is about to be sent
CurrentTexts == {<<"HI", " ">>, <<"x">>}

\* one session, the messages appended to it and the replay windows computed
\* from them
ReplayNext ==
    \/ SessionCreateCmd([app_name |-> "a1", user_id |-> "u1", session_id |-> Some("s1")],
                        "s1")
    \/ \E input \in ReplayInputs : AppendCheck(input, MaxReplayRows)
    \/ AppendInsert
    \/ AppendUpdate
    \/ \E current_text \in CurrentTexts, max_messages \in 0..MaxWindow :
          ReplayCall("s1", current_text, max_messages)

ReplaySpec == Init /\ [][ReplayNext]_vars

\* the messages a replay keeps: status done up to case and surrounding
\* whitespace, and a text that is not blank; each with its role and its
\* trimmed text
KeptForReplay(rows) ==
    LET kept == SelectSeq(rows, LAMBDA m : /\ Lower(Trim(m.status)) = <<"done">>
                                           /\ Trim(m.text) # <<>>)
    IN [i \in DOMAIN kept |-> [role |-> kept[i].role, text |-> Trim(kept[i].text)]]

\* the final kept entry repeats the message that is about to be sent
EndsWithCurrent(kept, current_text) ==
    /\ kept # <<>>
    /\ IsUserRole(kept[Len(kept)].role)
    /\ SpaceJoined(WordsOf(Lower(kept[Len(kept)].text)))
         = SpaceJoined(WordsOf(Lower(current_text)))

\* the last n entries of a list
LastOf(list, n) ==
    IF Len(list) > n THEN SubSeq(list, Len(list) - n + 1, Len(list)) ELSE list

KeysSet(keys, broken, macos) ==
    /\ LET r == set_keys(keyring, keys, broken, macos)
       IN /\ keyring' = r.ring
          /\ key_op' = [name |-> "set_keys",
                        input |-> Some([keys |-> keys, broken |-> broken]),
                        result |-> Some(r.ok)]
    /\ UNCHANGED <<stream_vars, supervisor_vars, db, clock, append, store_op>>

\* keys_clear
KeysClear(broken) ==
    /\ LET r == clear_keys(keyring, broken)
       IN /\ keyring' = r.ring
          /\ key_op' = [name |-> "clear_keys", input |-> Some([broken |-> broken]),
                        result |-> Some(r.ok)]
    /\ UNCHANGED <<stream_vars, supervisor_vars, db, clock, append, store_op>>

\* the inputs of keys_set: for the first key nothing, a blank value or one of
\* two secrets (one with whitespace around it), for the second nothing, an
\* empty value or a secret, for the third nothing or a secret
KeysInputs ==
    {[a \in AccountSet |->
         CASE a = GOOGLE_ACCOUNT -> g [] a = BRAVE_ACCOUNT -> b [] OTHER -> m] :
        g \in {None, Some(<<" ">>), Some(<<"A">>), Some(<<" ", "B", " ">>)},
        b \in {None, Some(<<>>), Some(<<"A">>)},
        m \in {None, Some(<<"A">>)}}

\* at most one entry of the keychain fails during a command
BrokenSets == {{}} \cup {{a} : a \in AccountSet}

KeysNext ==
    \/ \E keys \in KeysInputs, broken \in BrokenSets, macos \in BOOLEAN :
          KeysSet(keys, broken, macos)
    \/ \E broken \in BrokenSets : KeysClear(broken)

KeysSpec == Init /\ [][KeysNext]_vars

\* ------------------------------------------------------------------ properties of the credential store

\* the key was submitted with a value that is not blank
Submitted(keys, a) == keys[a] # None /\ Trim(keys[a][1]) # <<>>

\* C36: after set(keys) succeeds, every key submitted with a non-empty value
\* is present with that value, and every key submitted empty or not submitted
\* keeps its previous stored value (no delete); after clear() succeeds all
\* three keys are absent, and clear() succeeds whenever the keychain answers,
\* also when entries are already missing.  A step of the credential store is
\* the call key_op names after it.
C36_SetAndClear ==
    [][/\ (key_op'.name = "set_keys" /\ key_op'.result = Some(TRUE)) =>
             LET keys == key_op'.input[1].keys IN
             \A a \in AccountSet :
                keyring'[a] = IF Submitted(keys, a) THEN keys[a] ELSE keyring[a]
       /\ key_op'.name = "clear_keys" =>
             /\ key_op'.result = Some(TRUE) => \A a \in AccountSet : keyring'[a] = None
             /\ key_op'.input[1].broken = {} => key_op'.result = Some(TRUE)]_vars

\* a set has succeeded that replaced one secret by another, left the entry of
\* a key submitted empty as it was and the entry of a key not submitted as it
\* was
C36_Witness ==
    /\ key_op.name = "set_keys"
    /\ key_op.result = Some(TRUE)
    /\ key_op.input[1].keys[GOOGLE_ACCOUNT] = Some(<<" ", "B", " ">>)
    /\ keyring[GOOGLE_ACCOUNT] = Some(<<" ", "B", " ">>)
    /\ key_op.input[1].keys[BRAVE_ACCOUNT] = Some(<<>>)
    /\ keyring[BRAVE_ACCOUNT] = Some(<<"A">>)
    /\ key_op.input[1].keys[GEMINI_ACCOUNT] = None
    /\ keyring[GEMINI_ACCOUNT] = Some(<<"A">>)

\* ------------------------------------------------------------------ properties of concurrent runs

\* the task of run t was spawned and has not yet written its final phase
BeforeFinalPhase(t) == task[t].pc \notin {"none", "remove_token", "done"}

\* C37: for every desktop session at most one streaming task is in flight at
\* any time: while a task spawned by stream_run for a session has not yet
\* written its final phase, no other stream_run for that session is accepted
\* (none spawns a second task), under any interleaving of the commands.
C37_OneTaskPerSession ==
    \A a, b \in Runs :
        (a # b /\ BeforeFinalPhase(a) /\ BeforeFinalPhase(b))
            => run[a].session_id # run[b].session_id

\* C38: while a streaming task is in flight and has not been cancelled, the
\* token map holds that task's own token under its request_id, so that
\* stream_cancel(request_id) cancels it; a finishing task removes only its own
\* token, never the token of a newer task that reused the request_id.
C38_OwnTokenWhileInFlight ==
    \A t \in Runs :
        (task[t].pc \notin {"none", "done"} /\ t \notin cancelled)
            => stream_tokens[run[t].request_id] = t

\* C39: whenever stream_run returns an error (empty text, failed validation,
\* missing session, backend not running, failed restart, failed preemptive
\* phase_set), the session's phase and read_only are unchanged, no streaming
\* task has been spawned, no stream event is emitted, and no token is left in
\* the token map for that request.
C39_ErrorLeavesNothing ==
    [][\A c \in Runs :
          (run[c].pc # "failed" /\ run'[c].pc = "failed") =>
             /\ sessions' = sessions
             /\ ~run'[c].preset
             /\ task'[c].pc = "none"
             /\ events'[c] = <<>>
             /\ stream_tokens'[run[c].request_id] # c]_vars

\* ------------------------------------------------------------------ termination of streaming tasks

\* the step the task of run t takes next: every await of run_stream_task and
\* of the spawned closure returns, with any of the results it can have
TaskRuns(t) ==
    \/ \E created \in BOOLEAN : TaskEnsure(t, created)
    \/ \E replayed \in BOOLEAN : TaskReplay(t, replayed)
    \/ \E sent \in BOOLEAN, status \in HttpStatuses : TaskSseRequest(t, sent, status)
    \/ TaskSseCancelled(t)
    \/ TaskSseClosed(t)
    \/ TaskSseReadError(t)
    \/ \E chunk \in PairChunks : TaskSseChunk(t, chunk, MaxChunks)
    \/ \E sent \in BOOLEAN, status \in HttpStatuses, body \in FallbackBodies :
           TaskFallback(t, sent, status, body)
    \/ TaskHook(t)
    \/ TaskRemoveToken(t)

\* One stream_run, idea or approve, on a session that is never deleted; the
\* frontend may write any phase and cancel at any time; the upstream answers
\* every request in any way it can and sends at most MaxChunks chunks before
\* it closes the stream.
LiveNext ==
    \/ \E id \in SessionIds : SessionCreate(id)
    \/ \E id \in SessionIds, phase \in SessionPhase, read_only \in BOOLEAN :
           SessionPhaseSet(id, phase, read_only)
    \/ \E request_id \in RequestIds : StreamCancel(request_id)
    \/ \E c \in SoloRuns, session_id \in SessionIds, run_mode \in {"idea", "approve"} :
           StreamRunCall(c, "r1", session_id, run_mode, FALSE)
    \/ \E c \in SoloRuns, replay \in 0..MaxReplay : StreamRunValidate(c, replay)
    \/ \E c \in SoloRuns, available \in BOOLEAN : StreamRunBackend(c, available)
    \/ \E c \in SoloRuns : StreamRunToken(c)
    \/ \E c \in SoloRuns : StreamRunPreset(c)
    \/ \E c \in SoloRuns : StreamRunSpawn(c)
    \/ \E t \in SoloRuns : TaskRuns(t)

\* The tokio runtime keeps polling a command and a spawned task, and every
\* HTTP request returns or times out (stream.rs 622, 629, 636-637): a
\* stream_run that has set the phase goes on to tokio::spawn, and a task that
\* can take a step takes one.
LiveFairness ==
    \A t \in SoloRuns : WF_vars(StreamRunSpawn(t)) /\ WF_vars(TaskRuns(t))

LiveSpec == Init /\ [][LiveNext]_vars /\ LiveFairness

\* the task of run t has ended: its final phase is written and its token is
\* not in the map
TaskEnded(t) ==
    /\ task[t].pc = "done"
    /\ task[t].final = phase_after_run(run[t].run_mode, task[t].outcome = "Completed")
    /\ stream_tokens[run[t].request_id] # t

\* the approve run c has just put its session into (running, read_only): its
\* phase_set of lines 250-252 has succeeded and tokio::spawn comes next
PutIntoRunning(c) ==
    /\ run[c].run_mode = "approve"
    /\ run[c].preset
    /\ run[c].pc = StepAfter("preset")

\* C40: assuming every HTTP request eventually returns or times out and the
\* session is not deleted, every spawned streaming task eventually terminates,
\* writes its final phase and removes its token; consequently a session put
\* into (running, read_only=true) by an approve run eventually reaches
\* completed or failed and never stays in running.
C40_TasksTerminate ==
    \A t \in SoloRuns :
        /\ (task[t].pc # "none") ~> TaskEnded(t)
        /\ PutIntoRunning(t) ~>
               (sessions[run[t].session_id].phase \in {"completed", "failed"})

\* an approve run has put its session into (running, read_only), its task has
\* run to its end, and the session is completed with no token in the map
C40_Witness ==
    \E t \in SoloRuns :
        /\ run[t].run_mode = "approve"
        /\ run[t].preset
        /\ TaskEnded(t)
        /\ task[t].outcome = "Completed"
        /\ sessions[run[t].session_id].phase = "completed"
        /\ sessions[run[t].session_id].read_only

====
